---------------------------- MODULE Spec2Model ----------------------------
(***************************************************************************)
(* A model of the neural-network training engine: the convolutional        *)
(* layer's input-format binding, the network orchestrator (building the    *)
(* layer chain, forward/backward propagation, delta application, mutation, *)
(* batched learning), the training-set container (data_space) and the     *)
(* device routines of gpu_math with the layer's gpu mode.                  *)
(*                                                                         *)
(* Numbers held in tensors are exact rationals [n, d] (d > 0, reduced).    *)
(* The one place where the code decides something by float rounding (the   *)
(* whole-number test of the convolution output side) uses RoundToFloat,    *)
(* IEEE-754 single precision round-to-nearest-even.                        *)
(* Indices are 0-based as in the code; Seq positions are index + 1.        *)
(***************************************************************************)
EXTENDS Integers, Sequences, FiniteSets, TLC

VARIABLES
    \* ---- a stand-alone convolutional_layer object ----
    conv,            \* the layer: hyperparameters and tensor formats
    conv_thrown,     \* exception of the last call on it ("none" if it returned)
    conv_op          \* the last call made on it: [name, arg]

conv_vars == <<conv, conv_thrown, conv_op>>

VARIABLES
    \* ---- a neural_network object ----
    input_format,             \* <<w, h, d>>
    input_format_set,
    output_format,
    output_format_set,
    cost_derivative,          \* its format
    layers,                   \* the chain, layers[i + 1] is the layer of index i
    parameter_layer_indices,  \* 0-based layer indices
    output_p,                 \* index of the layer whose activations it points to, or Null
    bound_input,              \* the matrix the first layer's input pointer refers to
    thrown,                   \* exception of the last call ("none" if it returned)
    op,                       \* the last call made on the network: [name, ...]
    forward_completed         \* some forward_propagation call has returned

net_vars == <<input_format, input_format_set, output_format, output_format_set,
              cost_derivative, layers, parameter_layer_indices, output_p,
              bound_input, thrown, op, forward_completed>>

VARIABLES
    \* ---- the calls that train the network ----
    crashed,    \* the process has died in undefined behaviour
    learning,   \* the learn call in progress: position, arguments, batch cursor, counts
    calls,      \* number of training calls made on the network so far
    mutations   \* number of mutate calls among them

train_vars == <<crashed, learning, calls, mutations>>

VARIABLES
    \* ---- a data_space object ----
    shuffle_table,     \* 0-based row indices
    data_table,        \* the rows, data_table[r + 1] = [data, label] of row r
    data_format,
    label_format,
    space_item_count,  \* the member item_count
    iterator_idx,
    data_op,           \* the last call made on it: [name, ...]
    data_history       \* the names of the calls that returned since construction

data_vars == <<shuffle_table, data_table, data_format, label_format,
               space_item_count, iterator_idx, data_op, data_history>>

VARIABLES
    \* ---- the device: a fully connected layer's tensors and gpu_math ----
    residency,     \* where each parameter tensor of the layer lives
    gpu_memories,  \* the device buffers handed to the gpu_math entry points
    gpu_op         \* the last device call: [name, ...]

gpu_vars == <<residency, gpu_memories, gpu_op>>

vars == <<conv_vars, net_vars, train_vars, data_vars, gpu_vars>>

-----------------------------------------------------------------------------
(* Exact rational arithmetic                                               *)

Abs(x) == IF x < 0 THEN -x ELSE x

RECURSIVE GCD(_, _)
GCD(a, b) == IF b = 0 THEN a ELSE GCD(b, a % b)

Norm(n, d) ==
    LET g == GCD(Abs(n), d)
    IN  IF n = 0 THEN [n |-> 0, d |-> 1] ELSE [n |-> n \div g, d |-> d \div g]

R(i) == [n |-> i, d |-> 1]
Zero == R(0)
RAdd(a, b) == Norm(a.n * b.d + b.n * a.d, a.d * b.d)
RNeg(a) == [n |-> -a.n, d |-> a.d]
RSub(a, b) == RAdd(a, RNeg(b))
RMul(a, b) == Norm(a.n * b.n, a.d * b.d)
\* b # 0
RDiv(a, b) == IF b.n > 0 THEN Norm(a.n * b.d, a.d * b.n)
                         ELSE Norm(-(a.n * b.d), a.d * (-b.n))
RLess(a, b) == a.n * b.d < b.n * a.d

-----------------------------------------------------------------------------
(* IEEE-754 single precision: 24 significant bits, round to nearest, ties  *)
(* to even.  Exponent range is not modelled (no value here leaves it).     *)

MantissaBits == 24

RECURSIVE Pow2(_)
Pow2(e) == IF e = 0 THEN 1 ELSE 2 * Pow2(e - 1)

\* the number of bits of a >= 1: the least b with a < 2^b
RECURSIVE BitLen(_)
BitLen(a) == IF a = 0 THEN 0 ELSE 1 + BitLen(a \div 2)

\* round the non-negative rational num/den to the nearest integer, ties to even
RoundHalfEven(num, den) ==
    LET q == num \div den
        r == num % den
    IN  IF 2 * r < den THEN q
        ELSE IF 2 * r > den THEN q + 1
        ELSE IF q % 2 = 0 THEN q ELSE q + 1

\* the float nearest to the integer i (the conversion int -> float)
IntToFloat(i) ==
    LET a == Abs(i)
        b == BitLen(a)
        sign == IF i < 0 THEN -1 ELSE 1
    IN  IF b <= MantissaBits THEN R(i)
        ELSE LET ulp == Pow2(b - MantissaBits)
             IN  R(sign * RoundHalfEven(a, ulp) * ulp)

RECURSIVE IsPow2(_)
IsPow2(d) == d = 1 \/ (d % 2 = 0 /\ IsPow2(d \div 2))

\* for 0 < a < d: the least k with a * 2^k >= d
RECURSIVE UpShift(_, _)
UpShift(a, d) == IF a >= d THEN 0 ELSE 1 + UpShift(2 * a, d)

\* the float nearest to the rational q with |q| < 2^24: below 2^24 the floats
\* are the multiples of ulp = 2^(e-23), where 2^e <= |q| < 2^(e+1)
RoundToFloat(q) ==
    LET a == Abs(q.n)
        sign == IF q.n < 0 THEN -1 ELSE 1
        ip == a \div q.d                       \* integer part
        b == BitLen(ip)                         \* 2^(b-1) <= |q| < 2^b when ip >= 1
        fracBits == MantissaBits - b            \* bits left for the fraction
    IN  IF q.d = 1 THEN IntToFloat(q.n)
        ELSE IF IsPow2(q.d)
             THEN \* a binary fraction: keep the 24 leading bits of the numerator
                  IF BitLen(a) <= MantissaBits THEN q
                  ELSE LET drop == Pow2(BitLen(a) - MantissaBits)
                       IN  Norm(sign * RoundHalfEven(a, drop) * drop, q.d)
        ELSE IF ip = 0
             THEN LET k == UpShift(a, q.d)       \* 1 <= q * 2^k < 2
                      s == Pow2(k + MantissaBits - 1)
                  IN  Norm(sign * RoundHalfEven(a * s, q.d), s)
        ELSE IF fracBits <= 0
             THEN LET ulp == Pow2(-fracBits)
                  IN  R(sign * RoundHalfEven(a, q.d * ulp) * ulp)
             ELSE LET s == Pow2(fracBits)
                  IN  Norm(sign * RoundHalfEven(a * s, q.d), s)

FDiv(x, y) == RoundToFloat(RDiv(x, y))
FAdd(x, y) == RoundToFloat(RAdd(x, y))

\* util: a float with no fractional part
is_whole_number(x) == x.d = 1

\* (int) x
FloatToInt(x) == IF x.n >= 0 THEN x.n \div x.d ELSE -((-x.n) \div x.d)

-----------------------------------------------------------------------------
(* Tensor formats.  A format is <<width, height, depth>>.                  *)

item_count(f) == f[1] * f[2] * f[3]

\* matrix::resize / the matrix constructors store the shape they are given
\* (the shape is what the callers below read back)
Format(w, h, d) == <<w, h, d>>

NoFormat == Format(0, 0, 0)

-----------------------------------------------------------------------------
(* convolutional_layer                                                     *)

\* the constructor: validates the hyperparameters, then gives every kernel
\* the shape (k, k, 1) and the layer an empty activation tensor
ConvCtorError(number_of_kernels, kernel_size, stride) ==
    IF number_of_kernels <= 0 THEN "number_of_kernels must be greater than 0"
    ELSE IF kernel_size <= 0 THEN "kernel_size must be greater than 0"
    ELSE IF stride <= 0 THEN "stride must be greater than 0"
    ELSE IF stride > kernel_size
         THEN "stride must be smaller or equal than the kernel_size"
    ELSE "none"

ConvCtor(number_of_kernels, kernel_size, stride) ==
    [ type |-> "convolution",
      kernel_count |-> number_of_kernels,
      kernel_size |-> kernel_size,
      stride |-> stride,
      input_format |-> NoFormat,
      act_format |-> NoFormat,
      kernel_weights |-> [i \in 1..number_of_kernels |-> Format(kernel_size, kernel_size, 1)],
      kernel_biases |-> [i \in 1..number_of_kernels |-> Format(kernel_size, kernel_size, 1)],
      kernel_weights_deltas |-> [i \in 1..number_of_kernels |-> Format(kernel_size, kernel_size, 1)],
      kernel_bias_deltas |-> [i \in 1..number_of_kernels |-> Format(kernel_size, kernel_size, 1)] ]

\* layer::set_input_format: the base class records the format it is bound to
LayerSetInputFormat(l, fmt) == [l EXCEPT !.input_format = fmt]

\* the output side as the code computes it, in float:
\*   (side - kernel_size) / (float)stride + 1
OutputSide(side, kernel_size, stride) ==
    FAdd(FDiv(IntToFloat(side - kernel_size), IntToFloat(stride)), R(1))

\* convolutional_layer::set_input_format once the two output sides are
\* computed: [layer, thrown]
ConvBindSides(bound, input_depth, output_width, output_height) ==
    IF ~is_whole_number(output_width) \/ ~is_whole_number(output_height)
    THEN [ layer |-> bound,
           thrown |-> "input format is not compatible with the kernel size and stride" ]
    ELSE [ layer |->
             [bound EXCEPT
                !.act_format =
                    Format(FloatToInt(output_width), FloatToInt(output_height),
                           bound.kernel_count),
                !.kernel_weights =
                    [i \in 1..bound.kernel_count |->
                       Format(bound.kernel_size, bound.kernel_size, input_depth)],
                !.kernel_weights_deltas =
                    [i \in 1..bound.kernel_count |->
                       Format(bound.kernel_size, bound.kernel_size, input_depth)],
                !.kernel_biases =
                    [i \in 1..bound.kernel_count |->
                       Format(FloatToInt(output_width), FloatToInt(output_height),
                              bound.kernel_count)],
                !.kernel_bias_deltas =
                    [i \in 1..bound.kernel_count |->
                       Format(FloatToInt(output_width), FloatToInt(output_height),
                              bound.kernel_count)]],
           thrown |-> "none" ]

\* convolutional_layer::set_input_format: [layer, thrown]
ConvSetInputFormat(l, fmt) ==
    ConvBindSides(LayerSetInputFormat(l, fmt), fmt[3],
                  OutputSide(fmt[1], l.kernel_size, l.stride),
                  OutputSide(fmt[2], l.kernel_size, l.stride))

-----------------------------------------------------------------------------
(* Tensors with contents.  A tensor's contents are its flat buffer, a      *)
(* sequence of item_count rationals; index = x + y*width + z*width*height. *)

\* a null pointer to a layer or tensor, where the model holds an index
Null == -1

\* a freshly constructed or resized matrix is zero-filled
ZeroData(f) == [i \in 1..item_count(f) |-> Zero]

\* what a matrix pointer refers to; NullMatrix is nullptr
Matrix(f, data) == [null |-> FALSE, format |-> f, data |-> data]
NullMatrix == [null |-> TRUE, format |-> NoFormat, data |-> <<>>]

\* matrix::equal_format
equal_format(f, g) == f = g

-----------------------------------------------------------------------------
(* fully_connected_layer                                                   *)

\* fully_connected_layer(activation_format, activation_function); the
\* constructor taking a neuron count passes vector3(1, number_of_neurons, 1)
FCCtor(activation_format, activation_function) ==
    [ type |-> "fully_connected",
      activation_fn |-> activation_function,
      input_format |-> NoFormat,
      act_format |-> activation_format,
      activations |-> ZeroData(activation_format),
      error |-> ZeroData(activation_format),
      weights_format |-> NoFormat,
      weights |-> <<>>,
      weight_deltas |-> <<>>,
      biases |-> ZeroData(activation_format),
      bias_deltas |-> ZeroData(activation_format) ]

FCSetInputFormat(l, fmt) ==
    LET bound == LayerSetInputFormat(l, fmt)
        wf == Format(item_count(fmt), item_count(l.act_format), 1)
    IN  [ layer |-> [bound EXCEPT !.weights_format = wf,
                                  !.weights = ZeroData(wf),
                                  !.weight_deltas = ZeroData(wf)],
          thrown |-> "none" ]

\* the convolutional layer with its tensors allocated (zero-filled) in the
\* formats the constructor or set_input_format gave them
ConvAllocate(l) ==
    [ type |-> l.type,
      activation_fn |-> "relu",
      kernel_count |-> l.kernel_count,
      kernel_size |-> l.kernel_size,
      stride |-> l.stride,
      input_format |-> l.input_format,
      act_format |-> l.act_format,
      activations |-> ZeroData(l.act_format),
      error |-> ZeroData(l.act_format),
      kernel_weights_format |-> l.kernel_weights,
      kernel_biases_format |-> l.kernel_biases,
      kernel_weights |-> [i \in 1..l.kernel_count |-> ZeroData(l.kernel_weights[i])],
      kernel_biases |-> [i \in 1..l.kernel_count |-> ZeroData(l.kernel_biases[i])],
      kernel_weights_deltas |-> [i \in 1..l.kernel_count |-> ZeroData(l.kernel_weights_deltas[i])],
      kernel_bias_deltas |-> [i \in 1..l.kernel_count |-> ZeroData(l.kernel_bias_deltas[i])] ]

\* the virtual set_input_format of a layer that holds no trained values yet:
\* [layer, thrown]
SetInputFormatOf(l, f) ==
    IF l.type = "fully_connected" THEN FCSetInputFormat(l, f)
    ELSE IF l.type = "convolution"
         THEN LET r == ConvSetInputFormat(l, f)
              IN  [layer |-> r.layer, thrown |-> r.thrown]
    ELSE [layer |-> LayerSetInputFormat(l, f), thrown |-> "none"]

\* layer::set_previous_layer: binds the layer to its predecessor's activations
SetPreviousLayer(l, previous) == SetInputFormatOf(l, previous.act_format)

\* the layer as the chain stores it
Stored(l) == IF l.type = "convolution" THEN ConvAllocate(l) ELSE l

-----------------------------------------------------------------------------
(* neural_network: building the chain                                      *)

NetObjectInit ==
    /\ input_format = NoFormat
    /\ input_format_set = FALSE
    /\ output_format = NoFormat
    /\ output_format_set = FALSE
    /\ cost_derivative = NoFormat
    /\ layers = <<>>
    /\ parameter_layer_indices = <<>>
    /\ output_p = Null
    /\ bound_input = NullMatrix
    /\ thrown = "none"
    /\ op = [name |-> "construct"]
    /\ forward_completed = FALSE

\* no learn call is in progress
LearnIdle ==
    [pc |-> "idle", batch_size |-> 0, epochs |-> 0, i |-> 0,
     batch_start |-> 0, curr_data |-> 0, learned |-> 0, applied |-> 0]

\* no training call has been made yet
TrainObjectIdle ==
    /\ crashed = FALSE
    /\ learning = LearnIdle
    /\ calls = 0
    /\ mutations = 0

\* data_space::data_space(): the default-constructed container
\* no tensor is on the device and no device buffer is allocated
GpuObjectIdle ==
    /\ residency = [t \in {"weights", "biases", "weight_deltas", "bias_deltas"} |-> "host"]
    /\ gpu_memories = <<>>
    /\ gpu_op = [name |-> "none"]

DataObjectIdle ==
    /\ shuffle_table = <<>>
    /\ data_table = <<>>
    /\ data_format = NoFormat
    /\ label_format = NoFormat
    /\ space_item_count = 0
    /\ iterator_idx = 0
    /\ data_op = [name |-> "construct"]
    /\ data_history = {}

\* neural_network::get_last_layer, for a non-empty chain
get_last_layer(ls) == ls[Len(ls)]

\* set_input_format with the resize ahead of the "set twice" check
SetInputFormatOverwrites(given_input_format) ==
    [set |-> TRUE, format |-> given_input_format,
     thrown |-> IF input_format_set THEN "Cannot set input format twice." ELSE "none"]

\* neural_network::set_input_format
SetInputFormatResult(given_input_format) ==
    IF input_format_set = FALSE
    THEN [set |-> TRUE, format |-> given_input_format, thrown |-> "none"]
    ELSE [set |-> input_format_set, format |-> input_format,
          thrown |-> "Cannot set input format twice."]

\* neural_network::set_output_format
SetOutputFormatResult(given_output_format) ==
    IF output_format_set = FALSE
    THEN [set |-> TRUE, format |-> given_output_format,
          cost_derivative |-> given_output_format, thrown |-> "none"]
    ELSE [set |-> output_format_set, format |-> output_format,
          cost_derivative |-> cost_derivative,
          thrown |-> "Cannot set output format twice."]

\* neural_network::add_layer: [layers, parameter_layer_indices, thrown]
AddLayerResult(given_layer) ==
    LET pli == IF given_layer.type # "pooling"
               THEN Append(parameter_layer_indices, Len(layers))
               ELSE parameter_layer_indices
        r == IF layers = <<>>
             THEN SetInputFormatOf(given_layer, input_format)
             ELSE SetPreviousLayer(given_layer, get_last_layer(layers))
    IN  [ layers |-> IF r.thrown = "none" THEN Append(layers, Stored(r.layer)) ELSE layers,
          parameter_layer_indices |-> pli,
          thrown |-> r.thrown ]

\* neural_network::add_convolutional_layer: the layer's constructor may throw
\* before add_layer is reached
AddConvolutionalLayerResult(number_of_kernels, kernel_size, stride) ==
    IF ConvCtorError(number_of_kernels, kernel_size, stride) # "none"
    THEN [ layers |-> layers,
           parameter_layer_indices |-> parameter_layer_indices,
           thrown |-> ConvCtorError(number_of_kernels, kernel_size, stride) ]
    ELSE AddLayerResult(ConvCtor(number_of_kernels, kernel_size, stride))

-----------------------------------------------------------------------------
(* Forward propagation                                                     *)

RECURSIVE SumTo(_, _)
\* the sum of term[1..n]
SumTo(term, n) == IF n = 0 THEN Zero ELSE RAdd(SumTo(term, n - 1), term[n])

\* the activation functions; only ReLU is evaluated exactly here
Relu(x) == IF x.n > 0 THEN x ELSE Zero
\* ReLU's inverse and derivative as the back-propagation uses them
ReluInverse(y) == y
ReluDerivative(x) == IF x.n > 0 THEN R(1) ELSE Zero

\* fully_connected_layer::get_weight_at(input_layer_idx, current_activation_idx):
\* weights.get_at(vector3(x, y)) of a matrix of width input_count
WeightIdx(input_layer_idx, current_activation_idx, input_count) ==
    input_layer_idx + current_activation_idx * input_count

\* matrix::dot_product_flat
DotProductError(weights, input, activation_count) ==
    IF Len(weights) = 0 \/ Len(input) = 0 \/ activation_count = 0
    THEN "dot product: size must be greater than 0"
    ELSE IF Len(weights) # Len(input) * activation_count
    THEN "dot product: false format"
    ELSE "none"

DotProduct(weights, input, activation_count) ==
    [i \in 1..activation_count |->
        SumTo([j \in 1..Len(input) |->
                 RMul(weights[WeightIdx(j - 1, i - 1, Len(input)) + 1], input[j])],
              Len(input))]

\* fully_connected_layer::forward_propagation: [layer, thrown]
FCForward(l, input) ==
    LET err == DotProductError(l.weights, input, Len(l.activations))
        dot == DotProduct(l.weights, input, Len(l.activations))
    IN  IF err # "none" THEN [layer |-> l, thrown |-> err]
        ELSE [ layer |-> [l EXCEPT !.activations =
                            [i \in 1..Len(l.activations) |-> Relu(RAdd(dot[i], l.biases[i]))]],
               thrown |-> "none" ]

\* matrix::valid_cross_correlation of the input against one kernel, at output
\* position (x, y): the kernel laid over the input at (x*stride, y*stride)
CrossCorrelationAt(input, in_format, kernel, k, stride, x, y) ==
    LET iw == in_format[1]
        ih == in_format[2]
        n == k * k * in_format[3]
        term == [t \in 1..n |->
                   LET kx == (t - 1) % k
                       ky == ((t - 1) \div k) % k
                       z == (t - 1) \div (k * k)
                   IN  RMul(input[(x * stride + kx) + (y * stride + ky) * iw + z * iw * ih + 1],
                            kernel[t])]
    IN  SumTo(term, n)

\* convolutional_layer::forward_propagation_cpu: [layer, thrown]
ConvForward(l, input, in_format) ==
    LET ow == l.act_format[1]
        oh == l.act_format[2]
        k == l.kernel_size
        fits == /\ in_format = l.input_format
                /\ ow >= 1 /\ oh >= 1
                /\ (ow - 1) * l.stride + k = in_format[1]
                /\ (oh - 1) * l.stride + k = in_format[2]
                /\ Len(input) = item_count(in_format)
    IN  IF l.act_format[3] # l.kernel_count
        THEN [layer |-> l, thrown |-> "activations depth must be equal to the number of kernels"]
        ELSE IF ~fits
        THEN [layer |-> [l EXCEPT !.activations = ZeroData(l.act_format)],
              thrown |-> "valid cross correlation: false format"]
        ELSE [ layer |-> [l EXCEPT !.activations =
                 [i \in 1..item_count(l.act_format) |->
                    LET x == (i - 1) % ow
                        y == ((i - 1) \div ow) % oh
                        d == (i - 1) \div (ow * oh)
                    IN  Relu(RAdd(
                          CrossCorrelationAt(input, in_format, l.kernel_weights[d + 1],
                                             k, l.stride, x, y),
                          l.kernel_biases[d + 1][x + y * ow + 1]))]],
               thrown |-> "none" ]

LayerForward(l, input, in_format) ==
    IF l.type = "fully_connected" THEN FCForward(l, input)
    ELSE ConvForward(l, input, in_format)

\* one call the network makes on a layer (arg: the layer's 0-based index) or
\* on itself (arg: the argument), as it is entered in the order of the calls
Call(name, arg) == [call |-> name, arg |-> arg]

\* the loop of neural_network::forward_propagation from layer i (1-based) on:
\* [layers, thrown, calls]; a layer that throws ends it, the layers before it
\* keep their new activations
RECURSIVE ForwardChain(_, _, _, _)
ForwardChain(ls, i, input, in_format) ==
    IF i > Len(ls) THEN [layers |-> ls, thrown |-> "none", calls |-> <<>>]
    ELSE LET r == LayerForward(ls[i], input, in_format)
         IN  IF r.thrown # "none"
             THEN [layers |-> [ls EXCEPT ![i] = r.layer], thrown |-> r.thrown,
                   calls |-> <<Call("forward_propagation", i - 1)>>]
             ELSE [ForwardChain([ls EXCEPT ![i] = r.layer], i + 1,
                                r.layer.activations, r.layer.act_format)
                     EXCEPT !.calls = <<Call("forward_propagation", i - 1)>> \o @]

\* a set_input that does not compare the input with the input format
SetInputUnchecked(input) ==
    IF input.null THEN "Input is nullptr."
    ELSE IF layers = <<>>
    THEN "Could not set Input. No layers have been added yet."
    ELSE "none"

\* neural_network::set_input: the exception it throws, or "none"
SetInputError(input) ==
    IF input.null THEN "Input is nullptr."
    ELSE IF input_format_set = FALSE \/ equal_format(input_format, input.format) = FALSE
    THEN "Could not set Input. Input format is not set or does not match the input format."
    ELSE IF layers = <<>>
    THEN "Could not set Input. No layers have been added yet."
    ELSE "none"

\* neural_network::forward_propagation: [layers, bound_input, thrown, calls]
ForwardPropagationResult(input) ==
    LET err == SetInputError(input)
        r == ForwardChain(layers, 1, input.data, input.format)
    IN  IF err # "none"
        THEN [layers |-> layers, bound_input |-> bound_input, thrown |-> err,
              calls |-> <<>>]
        ELSE [layers |-> r.layers, bound_input |-> input, thrown |-> r.thrown,
              calls |-> r.calls]

-----------------------------------------------------------------------------
(* Back-propagation and the parameter updates                              *)

\* layer::set_error_for_last_layer: the error of the output layer is seeded
\* from the label, error = activations - expected
SetErrorForLastLayer(l, expected) ==
    [l EXCEPT !.error = [i \in 1..Len(l.activations) |->
                           RSub(l.activations[i], expected[i])]]

\* error_value * activation_derivative of one neuron, as back_propagation
\* computes it from the stored activation
NeuronGradient(l, i) ==
    RMul(l.error[i], ReluDerivative(ReluInverse(l.activations[i])))

\* fully_connected_layer::back_propagation: [layer, passing_error];
\* passing_error is the predecessor's error tensor (unused when has_previous
\* is false: the first layer is handed nullptr)
FCBackPropagation(l, input, passing_error, has_previous) ==
    LET n == Len(l.activations)
        m == Len(input)
    IN  [ layer |->
            [l EXCEPT
               !.error = [i \in 1..n |-> Zero],
               !.bias_deltas = [i \in 1..n |-> RAdd(l.bias_deltas[i], NeuronGradient(l, i))],
               !.weight_deltas =
                   [t \in 1..Len(l.weight_deltas) |->
                      LET j == ((t - 1) % m) + 1
                          i == ((t - 1) \div m) + 1
                      IN  IF i <= n
                          THEN RAdd(l.weight_deltas[t], RMul(NeuronGradient(l, i), input[j]))
                          ELSE l.weight_deltas[t]]],
          passing_error |->
            IF has_previous
            THEN [j \in 1..Len(passing_error) |->
                    IF j <= m
                    THEN RAdd(passing_error[j],
                              SumTo([i \in 1..n |->
                                       RMul(NeuronGradient(l, i),
                                            l.weights[WeightIdx(j - 1, i - 1, m) + 1])], n))
                    ELSE passing_error[j]]
            ELSE passing_error ]

\* convolutional_layer::back_propagation has an empty body
ConvBackPropagation(l, input, passing_error, has_previous) ==
    [layer |-> l, passing_error |-> passing_error]

LayerBackPropagation(l, input, passing_error, has_previous) ==
    IF l.type = "fully_connected"
    THEN FCBackPropagation(l, input, passing_error, has_previous)
    ELSE ConvBackPropagation(l, input, passing_error, has_previous)

\* a loop over the layers that back-propagates from the first layer upwards
BackwardChainAscending(ls, i, net_input) ==
    [layers |-> ls, calls |-> [k \in 1..i |-> Call("back_propagation", k - 1)]]

\* the reverse loop of learn_once, from layer i (1-based) down to the first:
\* [layers, calls]
RECURSIVE BackwardChain(_, _, _)
BackwardChain(ls, i, net_input) ==
    IF i = 0 THEN [layers |-> ls, calls |-> <<>>]
    ELSE IF i = 1
    THEN [layers |-> [ls EXCEPT ![1] = LayerBackPropagation(ls[1], net_input,
                                                            <<>>, FALSE).layer],
          calls |-> <<Call("back_propagation", 0)>>]
    ELSE [BackwardChain(
           [ls EXCEPT
              ![i] = LayerBackPropagation(ls[i], ls[i - 1].activations,
                                          ls[i - 1].error, TRUE).layer,
              ![i - 1] = [ls[i - 1] EXCEPT !.error =
                            LayerBackPropagation(ls[i], ls[i - 1].activations,
                                                 ls[i - 1].error, TRUE).passing_error]],
           i - 1, net_input)
            EXCEPT !.calls = <<Call("back_propagation", i - 1)>> \o @]

\* the rate the network hands to its layers' apply_deltas
LearningRate == [n |-> 6, d |-> 1]

\* an apply_deltas step that leaves out the division by the batch size
UpdatedUnaveraged(current, delta, training_data_count, learning_rate) ==
    RSub(current, RMul(delta, learning_rate))

\* one parameter after apply_deltas: current - (delta / training_data_count) * rate
Updated(current, delta, training_data_count, learning_rate) ==
    RSub(current, RMul(RDiv(delta, R(training_data_count)), learning_rate))

\* fully_connected_layer::apply_deltas
FCApplyDeltas(l, training_data_count, learning_rate) ==
    [l EXCEPT
       !.biases = [i \in 1..Len(l.biases) |->
                     Updated(l.biases[i], l.bias_deltas[i], training_data_count, learning_rate)],
       !.bias_deltas = [i \in 1..Len(l.bias_deltas) |-> Zero],
       !.weights = [i \in 1..Len(l.weights) |->
                     Updated(l.weights[i], l.weight_deltas[i], training_data_count, learning_rate)],
       !.weight_deltas = [i \in 1..Len(l.weight_deltas) |-> Zero]]

\* convolutional_layer::apply_deltas has an empty body
ConvApplyDeltas(l, number_of_inputs) == l

LayerApplyDeltas(l, training_data_count) ==
    IF l.type = "fully_connected"
    THEN FCApplyDeltas(l, training_data_count, LearningRate)
    ELSE ConvApplyDeltas(l, training_data_count)

\* fully_connected_layer::set_all_parameter / convolutional_layer::set_all_parameter
LayerSetAllParameter(l, value) ==
    IF l.type = "fully_connected"
    THEN [l EXCEPT !.biases = [i \in 1..Len(l.biases) |-> value],
                   !.weights = [i \in 1..Len(l.weights) |-> value]]
    ELSE [l EXCEPT !.kernel_weights =
                       [k \in 1..Len(l.kernel_weights) |->
                          [i \in 1..Len(l.kernel_weights[k]) |-> value]],
                   !.kernel_biases =
                       [k \in 1..Len(l.kernel_biases) |->
                          [i \in 1..Len(l.kernel_biases[k]) |-> value]]]

\* matrix::mutate: one element, picked at random, gets a random float of
\* [-range, range] added; the results for every pick
MatrixMutations(data, perturbation) ==
    {[data EXCEPT ![i] = RAdd(@, perturbation)] : i \in 1..Len(data)}

\* biased_coin_toss(a, b): true with probability a / (a + b); the outcomes
\* that have a chance
CoinTossOutcomes(a, b) ==
    IF a + b = 0 THEN BOOLEAN
    ELSE {t \in BOOLEAN : IF t THEN a > 0 ELSE b > 0}

\* a mutate that perturbs a weight and a bias at once
FCMutatesBoth(l, perturbation) ==
    {[l EXCEPT !.weights = w, !.biases = b] :
        w \in MatrixMutations(l.weights, perturbation),
        b \in MatrixMutations(l.biases, perturbation)}

\* fully_connected_layer::mutate: the layers it can leave behind
FCMutations(l, perturbation) ==
    UNION {IF toss
           THEN {[l EXCEPT !.weights = w] : w \in MatrixMutations(l.weights, perturbation)}
           ELSE {[l EXCEPT !.biases = b] : b \in MatrixMutations(l.biases, perturbation)} :
           toss \in CoinTossOutcomes(Len(l.weights), Len(l.biases))}

\* convolutional_layer::mutate: a random kernel, then a random weight or a
\* random bias of it (the index ranges are those of kernel 0)
ConvMutations(l, perturbation) ==
    UNION {IF toss
           THEN {[l EXCEPT !.kernel_weights[random_kernel_idx][random_weight_idx] =
                              RAdd(@, perturbation)] :
                    random_weight_idx \in 1..Len(l.kernel_weights[1])}
           ELSE {[l EXCEPT !.kernel_biases[random_kernel_idx][random_bias_idx] =
                              RAdd(@, perturbation)] :
                    random_bias_idx \in 1..Len(l.kernel_biases[1])} :
           random_kernel_idx \in 1..l.kernel_count,
           toss \in CoinTossOutcomes(Len(l.kernel_weights[1]), Len(l.kernel_biases[1]))}

LayerMutations(l, perturbation) ==
    IF l.type = "fully_connected" THEN FCMutations(l, perturbation)
    ELSE ConvMutations(l, perturbation)

\* neural_network::mutate: the set of [layers, thrown, crashed] it can end in,
\* one for every random pick
MutateOutcomes(perturbation) ==
    IF parameter_layer_indices = <<>>
    THEN {[layers |-> layers,
           thrown |-> "Cannot mutate. No parameter layers have been added yet.",
           crashed |-> FALSE]}
    ELSE UNION {IF parameter_layer_indices[p] >= Len(layers)
                THEN {[layers |-> layers, thrown |-> "none", crashed |-> TRUE]}
                ELSE {[layers |-> [layers EXCEPT ![parameter_layer_indices[p] + 1] = m],
                       thrown |-> "none", crashed |-> FALSE] :
                        m \in LayerMutations(layers[parameter_layer_indices[p] + 1],
                                             perturbation)} :
                p \in 1..Len(parameter_layer_indices)}

\* the virtual call a loop over the parameter layers makes on one layer
LayerCall(l, call) ==
    IF call.name = "apply_deltas" THEN LayerApplyDeltas(l, call.arg)
    ELSE LayerSetAllParameter(l, call.arg)

\* "for (auto& l : parameter_layer_indices) layers[l]->f(...)" from position p
\* (1-based) on: [layers, crashed].  layers[l] with l >= layers.size() reads
\* past the vector's elements and calls through what it finds there: the
\* process does not survive it (crashed).
RECURSIVE ForParameterLayers(_, _, _, _)
ForParameterLayers(ls, pli, p, call) ==
    IF p > Len(pli) THEN [layers |-> ls, crashed |-> FALSE]
    ELSE IF pli[p] >= Len(ls) THEN [layers |-> ls, crashed |-> TRUE]
    ELSE ForParameterLayers([ls EXCEPT ![pli[p] + 1] = LayerCall(ls[pli[p] + 1], call)],
                            pli, p + 1, call)

\* neural_network::apply_deltas
ApplyDeltasResult(ls, training_data_count) ==
    ForParameterLayers(ls, parameter_layer_indices, 1,
                       [name |-> "apply_deltas", arg |-> training_data_count])

\* neural_network::set_all_parameter
SetAllParameterResult(ls, value) ==
    ForParameterLayers(ls, parameter_layer_indices, 1,
                       [name |-> "set_all_parameter", arg |-> value])

-----------------------------------------------------------------------------
(* The calls that build a network and run it forward                       *)

MaxLayers == 2
MaxNeurons == 2

NetInputFormats == {Format(1, 2, 1), Format(2, 2, 1), Format(3, 3, 1)}
NetOutputFormats == {Format(1, 1, 1), Format(1, 2, 1)}
\* <<number_of_kernels, kernel_size, stride>>
NetConvParams == {<<1, 2, 2>>, <<1, 2, 1>>, <<1, 1, 2>>}
InputValues == {0, 1}

\* the matrices a caller passes as network input: none, or one of a format
NetInputs ==
    {NullMatrix} \cup {Matrix(f, [i \in 1..item_count(f) |-> R(v)]) :
                   f \in NetInputFormats, v \in InputValues}

SetInputFormat ==
    \E f \in NetInputFormats :
        \E r \in {SetInputFormatResult(f)} :
            /\ input_format_set' = r.set
            /\ input_format' = r.format
            /\ thrown' = r.thrown
            /\ op' = [name |-> "set_input_format"]
            /\ UNCHANGED <<output_format, output_format_set, cost_derivative, layers,
                           parameter_layer_indices, output_p, bound_input,
                           forward_completed, conv_vars, train_vars, data_vars, gpu_vars>>

SetOutputFormat ==
    \E f \in NetOutputFormats :
        \E r \in {SetOutputFormatResult(f)} :
            /\ output_format_set' = r.set
            /\ output_format' = r.format
            /\ cost_derivative' = r.cost_derivative
            /\ thrown' = r.thrown
            /\ op' = [name |-> "set_output_format"]
            /\ UNCHANGED <<input_format, input_format_set, layers,
                           parameter_layer_indices, output_p, bound_input,
                           forward_completed, conv_vars, train_vars, data_vars, gpu_vars>>

\* the model's cap on the calls that add a layer (the chain is unbounded in the code)
MayAdd == Len(parameter_layer_indices) < MaxLayers

AddFullyConnectedLayer ==
    \E num_neurons \in 1..MaxNeurons :
        \E r \in {AddLayerResult(FCCtor(Format(1, num_neurons, 1), "relu"))} :
            /\ MayAdd
            /\ layers' = r.layers
            /\ parameter_layer_indices' = r.parameter_layer_indices
            /\ thrown' = r.thrown
            /\ op' = [name |-> "add_fully_connected_layer"]
            /\ UNCHANGED <<input_format, input_format_set, output_format,
                           output_format_set, cost_derivative, output_p, bound_input,
                           forward_completed, conv_vars, train_vars, data_vars, gpu_vars>>

AddLastFullyConnectedLayer ==
    \E r \in {AddLayerResult(FCCtor(output_format, "relu"))} :
        /\ MayAdd
        /\ layers' = r.layers
        /\ parameter_layer_indices' = r.parameter_layer_indices
        /\ thrown' = r.thrown
        /\ output_p' = IF r.thrown = "none" THEN Len(r.layers) - 1 ELSE output_p
        /\ op' = [name |-> "add_last_fully_connected_layer"]
        /\ UNCHANGED <<input_format, input_format_set, output_format,
                       output_format_set, cost_derivative, bound_input,
                       forward_completed, conv_vars, train_vars, data_vars, gpu_vars>>

AddConvolutionalLayer ==
    \E hp \in NetConvParams :
        \E r \in {AddConvolutionalLayerResult(hp[1], hp[2], hp[3])} :
            /\ MayAdd
            /\ layers' = r.layers
            /\ parameter_layer_indices' = r.parameter_layer_indices
            /\ thrown' = r.thrown
            /\ op' = [name |-> "add_convolutional_layer"]
            /\ UNCHANGED <<input_format, input_format_set, output_format,
                           output_format_set, cost_derivative, output_p, bound_input,
                           forward_completed, conv_vars, train_vars, data_vars, gpu_vars>>

\* neural_network::add_pooling_layer has an empty body
AddPoolingLayer ==
    /\ thrown' = "none"
    /\ op' = [name |-> "add_pooling_layer"]
    /\ UNCHANGED <<input_format, input_format_set, output_format, output_format_set,
                   cost_derivative, layers, parameter_layer_indices, output_p,
                   bound_input, forward_completed, conv_vars, train_vars, data_vars, gpu_vars>>

ForwardPropagation ==
    \E input \in NetInputs :
        \E r \in {ForwardPropagationResult(input)} :
            /\ layers' = r.layers
            /\ bound_input' = r.bound_input
            /\ thrown' = r.thrown
            /\ forward_completed' = (forward_completed \/ r.thrown = "none")
            /\ op' = [name |-> "forward_propagation", input |-> input,
                      calls |-> r.calls]
            /\ UNCHANGED <<input_format, input_format_set, output_format,
                           output_format_set, cost_derivative,
                           parameter_layer_indices, output_p, conv_vars, train_vars, data_vars, gpu_vars>>

BuildNext ==
    \/ SetInputFormat
    \/ SetOutputFormat
    \/ AddFullyConnectedLayer
    \/ AddLastFullyConnectedLayer
    \/ AddConvolutionalLayer
    \/ AddPoolingLayer
    \/ ForwardPropagation

-----------------------------------------------------------------------------
(* The stand-alone convolutional layer: constructed, then bound to input   *)
(* formats.                                                                *)

MaxSide == 5
MaxKernelSize == 2
MaxKernelCount == 2
MaxDepth == 2

\* 2^24 + 3: the least side s with s - 2 not representable as a float
BigSide == Pow2(MantissaBits) + 3

\* sides below the kernel size, the two largest small sides, and the big one
ConvSides == {0, 1, MaxSide - 1, MaxSide, BigSide}
ConvFormats == {Format(w, h, d) : w \in ConvSides, h \in ConvSides, d \in 1..MaxDepth}

\* the layer object at rest, for the specifications that make no call on it
ConvObjectIdle ==
    /\ conv = ConvCtor(1, 1, 1)
    /\ conv_thrown = "none"
    /\ conv_op = [name |-> "construct", arg |-> NoFormat]

ConvObjectInit ==
    /\ \E kc \in 1..MaxKernelCount, k \in 1..MaxKernelSize, s \in 1..MaxKernelSize :
          /\ ConvCtorError(kc, k, s) = "none"
          /\ conv = ConvCtor(kc, k, s)
    /\ conv_thrown = "none"
    /\ conv_op = [name |-> "construct", arg |-> NoFormat]

\* a new layer object replaces the old one, unless its constructor throws
ConvConstruct ==
    \E kc \in 0..MaxKernelCount, k \in 0..MaxKernelSize, s \in 0..MaxKernelSize :
        /\ UNCHANGED <<net_vars, train_vars, data_vars, gpu_vars>>
        /\ conv_thrown' = ConvCtorError(kc, k, s)
        /\ conv' = IF conv_thrown' = "none" THEN ConvCtor(kc, k, s) ELSE conv
        /\ conv_op' = [name |-> "construct", arg |-> NoFormat]

ConvBind ==
    \E f \in ConvFormats :
        LET r == ConvSetInputFormat(conv, f)
        IN  /\ UNCHANGED <<net_vars, train_vars, data_vars, gpu_vars>>
            /\ conv' = r.layer
            /\ conv_thrown' = r.thrown
            /\ conv_op' = [name |-> "set_input_format", arg |-> f]

ConvNext == ConvConstruct \/ ConvBind

ConvInit ==
    ConvObjectInit /\ NetObjectInit /\ TrainObjectIdle /\ DataObjectIdle /\ GpuObjectIdle

SpecConv == ConvInit /\ [][ConvNext]_vars

-----------------------------------------------------------------------------
(* C8: convolutional_layer::set_input_format with input width/height n,    *)
(* kernel size k and stride s fails exactly when (n - k)/s + 1 is not an   *)
(* integer for the width or the height, and otherwise sets the activation  *)
(* shape to ((w-k)/s+1, (h-k)/s+1, kernel_count) and every kernel's weight *)
(* shape to (k, k, input_depth).                                           *)
Integral(side, k, s) == (side - k) % s = 0

C8_FailsExactlyWhenNotIntegral ==
    conv_op.name = "set_input_format" =>
        LET w == conv_op.arg[1]
            h == conv_op.arg[2]
            d == conv_op.arg[3]
            k == conv.kernel_size
            s == conv.stride
        IN  /\ (conv_thrown # "none") <=> ~(Integral(w, k, s) /\ Integral(h, k, s))
            /\ conv_thrown = "none" =>
                  /\ conv.act_format =
                        Format((w - k) \div s + 1, (h - k) \div s + 1, conv.kernel_count)
                  /\ \A i \in 1..conv.kernel_count :
                        conv.kernel_weights[i] = Format(k, k, d)

(* C21: whenever convolutional_layer::set_input_format succeeds, the       *)
(* resulting activation tensor has width >= 1 and height >= 1 (an input    *)
(* whose side is smaller than the kernel size is rejected rather than      *)
(* producing a zero or negative output side).                              *)
C21_BoundActivationHasPositiveSides ==
    (conv_op.name = "set_input_format" /\ conv_thrown = "none") =>
        /\ conv.act_format[1] >= 1
        /\ conv.act_format[2] >= 1
        /\ conv_op.arg[1] >= conv.kernel_size
        /\ conv_op.arg[2] >= conv.kernel_size

-----------------------------------------------------------------------------
BuildInit ==
    NetObjectInit /\ ConvObjectIdle /\ TrainObjectIdle /\ DataObjectIdle /\ GpuObjectIdle

SpecBuild == BuildInit /\ [][BuildNext]_vars

-----------------------------------------------------------------------------
(* Claims about building the network                                       *)

Incompatible == "input format is not compatible with the kernel size and stride"

\* the increasing list of the 0-based indices of the layers that are no
\* pooling layers
NonPoolingIndices(ls) ==
    SelectSeq([i \in 1..Len(ls) |-> i - 1], LAMBDA i : ls[i + 1].type # "pooling")

(* C4: after any sequence of add_layer calls, successful or failing,       *)
(* parameter_layer_indices is exactly the increasing list of the indices   *)
(* i < layers.size() whose layer is not a pooling layer; it never holds an *)
(* index that has no layer in the chain.                                   *)
C4_ParameterIndicesAreTheNonPoolingLayers ==
    parameter_layer_indices = NonPoolingIndices(layers)

(* C5: the input format and the output format are each set at most once:  *)
(* once a format is set, every later call leaves the stored format and the *)
(* flag as they were, and a later set_input_format / set_output_format     *)
(* call ends with an error.                                                *)
C5_FormatsSetAtMostOnce ==
    [][ /\ input_format_set =>
            /\ input_format_set' /\ input_format' = input_format
            /\ op'.name = "set_input_format" =>
                   thrown' = "Cannot set input format twice."
        /\ output_format_set =>
            /\ output_format_set' /\ output_format' = output_format
            /\ cost_derivative' = cost_derivative
            /\ op'.name = "set_output_format" =>
                   thrown' = "Cannot set output format twice."
      ]_vars

\* a second set_input_format has failed, and so has a second set_output_format
C5_SecondCallFailed ==
    /\ input_format_set /\ output_format_set
    /\ op.name \in {"set_input_format", "set_output_format"}
    /\ thrown \in {"Cannot set input format twice.", "Cannot set output format twice."}

(* C6: the input format is set before any layer is added: in every state   *)
(* in which layers is non-empty, input_format_set is true.                 *)
C6_LayersOnlyAfterInputFormat ==
    layers # <<>> => input_format_set

(* C7: the network output is the last layer's activation: in every state   *)
(* after a forward_propagation has completed, get_output() is non-null and *)
(* refers to the activations of the layer with the highest index.          *)
C7_OutputIsLastLayerActivation ==
    forward_completed => (output_p # Null /\ output_p = Len(layers) - 1)

(* C9: a failing operation leaves its target unmodified: when              *)
(* convolutional_layer::set_input_format fails inside add_layer, the       *)
(* network's layers and parameter_layer_indices are as before the call.    *)
C9_FailedAddLeavesNetworkUnmodified ==
    [][ thrown' = Incompatible =>
            /\ layers' = layers
            /\ parameter_layer_indices' = parameter_layer_indices ]_vars

-----------------------------------------------------------------------------
(* Training: learn_once, apply_deltas, set_all_parameter, learn            *)

TrainingSize == 2
MaxBatch == 2
MaxEpochs == 2
MaxCalls == 3

\* nn_data: a data matrix with its label
Example(data, label) == [data |-> data, label |-> label]

\* the e-th (1-based) example of the training set handed to learn, in the
\* network's formats: the first e inputs are 1, the label is e mod 2
TrainingExample(e) ==
    Example(Matrix(input_format,
                   [i \in 1..item_count(input_format) |-> R(IF i <= e THEN 1 ELSE 0)]),
            Matrix(output_format,
                   [i \in 1..item_count(output_format) |-> R(e % 2)]))

TrainingData == [e \in 1..TrainingSize |-> TrainingExample(e)]

\* an example whose label has another format than the network's output
MislabelledExample ==
    Example(TrainingExample(1).data, Matrix(Format(1, 3, 1), <<R(1), R(0), R(0)>>))

\* the error seeded into the last layer, then the reverse loop over the
\* layers: [layers, calls]
BackPropagated(ls, training_data) ==
    [BackwardChain(
        [ls EXCEPT ![Len(ls)] = SetErrorForLastLayer(ls[Len(ls)], training_data.label.data)],
        Len(ls), training_data.data.data)
       EXCEPT !.calls = <<Call("set_error_for_last_layer", Len(ls) - 1)>> \o @]

\* an end of learn_once that applies the deltas whatever apply_changes is
LearnOnceAlwaysApplies(ls, input, apply_changes, made) ==
    [ layers |-> ApplyDeltasResult(ls, 1).layers,
      bound_input |-> input,
      forwarded |-> TRUE,
      thrown |-> "none",
      crashed |-> ApplyDeltasResult(ls, 1).crashed,
      calls |-> made \o <<Call("apply_deltas", 1)>> ]

\* the end of learn_once: "if (apply_changes) apply_deltas(1)"; made is the
\* order of the calls up to here
LearnOnceEnd(ls, input, apply_changes, made) ==
    [ layers |-> IF apply_changes THEN ApplyDeltasResult(ls, 1).layers ELSE ls,
      bound_input |-> input,
      forwarded |-> TRUE,
      thrown |-> "none",
      crashed |-> apply_changes /\ ApplyDeltasResult(ls, 1).crashed,
      calls |-> IF apply_changes THEN made \o <<Call("apply_deltas", 1)>> ELSE made ]

\* learn_once from the return of forward_propagation (fr) on
LearnOnceAfterForward(fr, training_data, apply_changes) ==
    IF fr.thrown # "none"
    THEN [layers |-> fr.layers, bound_input |-> fr.bound_input, forwarded |-> FALSE,
          thrown |-> fr.thrown, crashed |-> FALSE, calls |-> fr.calls]
    ELSE IF ~equal_format(get_last_layer(fr.layers).act_format, training_data.label.format)
    THEN [layers |-> fr.layers, bound_input |-> fr.bound_input, forwarded |-> TRUE,
          thrown |-> "set_error_for_last_layer: format mismatch", crashed |-> FALSE,
          calls |-> fr.calls \o <<Call("set_error_for_last_layer", Len(fr.layers) - 1)>>]
    ELSE \* BackPropagated is bound once
         LET bp == BackPropagated(fr.layers, training_data)
         IN  LearnOnceEnd(bp.layers, fr.bound_input, apply_changes,
                          fr.calls \o bp.calls)

\* neural_network::learn_once: [layers, bound_input, forwarded, thrown,
\* crashed, calls]
LearnOnceResult(training_data, apply_changes) ==
    IF ~equal_format(training_data.label.format, output_format)
    THEN [layers |-> layers, bound_input |-> bound_input, forwarded |-> FALSE,
          thrown |-> "The expected output does not have the correct format.",
          crashed |-> FALSE, calls |-> <<>>]
    ELSE LearnOnceAfterForward(ForwardPropagationResult(training_data.data),
                               training_data, apply_changes)

\* batch_handler: the batch is [batch_start, BatchEnd) of the training set
BatchEnd(batch_start, batch_size) ==
    IF batch_start + batch_size <= TrainingSize THEN batch_start + batch_size
    ELSE TrainingSize

\* batch_handler::calculate_new_batch: the next slice, from the front again
\* once the set is used up
NewBatchStart(batch_start, batch_size) ==
    IF BatchEnd(batch_start, batch_size) >= TrainingSize THEN 0
    ELSE BatchEnd(batch_start, batch_size)

\* the concatenation of a sequence of sequences
RECURSIVE Flatten(_)
Flatten(seqs) == IF seqs = <<>> THEN <<>> ELSE Head(seqs) \o Flatten(Tail(seqs))

\* every weight and bias of a layer, and the delta accumulator of each, in
\* one order
Params(l) ==
    IF l.type = "fully_connected" THEN l.weights \o l.biases
    ELSE Flatten(l.kernel_weights) \o Flatten(l.kernel_biases)

Deltas(l) ==
    IF l.type = "fully_connected" THEN l.weight_deltas \o l.bias_deltas
    ELSE Flatten(l.kernel_weights_deltas) \o Flatten(l.kernel_bias_deltas)

\* some delta accumulator of the chain holds a gradient
DeltasPending(ls) ==
    \E i \in 1..Len(ls) : \E j \in 1..Len(Deltas(ls[i])) : Deltas(ls[i])[j] # Zero

\* the calls below are made by one thread on a live process, one at a time
MayCall == ~crashed /\ learning.pc = "idle" /\ calls < MaxCalls

SetAllParameter ==
    /\ MayCall
    /\ \E value \in {R(1)} :
        \E r \in {SetAllParameterResult(layers, value)} :
            /\ layers' = r.layers
            /\ crashed' = r.crashed
            /\ thrown' = "none"
            /\ op' = [name |-> "set_all_parameter"]
            /\ calls' = calls + 1
            /\ UNCHANGED <<input_format, input_format_set, output_format,
                           output_format_set, cost_derivative,
                           parameter_layer_indices, output_p, bound_input,
                           forward_completed, learning, mutations, conv_vars, data_vars, gpu_vars>>

ApplyDeltas ==
    /\ MayCall
    /\ \E training_data_count \in 1..MaxBatch :
        \E r \in {ApplyDeltasResult(layers, training_data_count)} :
            /\ layers' = r.layers
            /\ crashed' = r.crashed
            /\ thrown' = "none"
            /\ op' = [name |-> "apply_deltas", arg |-> training_data_count,
                      pending |-> DeltasPending(layers)]
            /\ calls' = calls + 1
            /\ UNCHANGED <<input_format, input_format_set, output_format,
                           output_format_set, cost_derivative,
                           parameter_layer_indices, output_p, bound_input,
                           forward_completed, learning, mutations, conv_vars, data_vars, gpu_vars>>

LearnOnce ==
    /\ MayCall
    /\ \E training_data \in {TrainingData[e] : e \in 1..TrainingSize} \cup {MislabelledExample},
       apply_changes \in BOOLEAN :
        \E r \in {LearnOnceResult(training_data, apply_changes)} :
            /\ layers' = r.layers
            /\ bound_input' = r.bound_input
            /\ forward_completed' = (forward_completed \/ r.forwarded)
            /\ crashed' = r.crashed
            /\ thrown' = r.thrown
            /\ op' = [name |-> "learn_once", arg |-> apply_changes,
                      data |-> training_data, calls |-> r.calls]
            /\ calls' = calls + 1
            /\ UNCHANGED <<input_format, input_format_set, output_format,
                           output_format_set, cost_derivative,
                           parameter_layer_indices, output_p,
                           learning, mutations, conv_vars, data_vars, gpu_vars>>

\* learn(training_data, batch_size, epochs) up to its first loop test
LearnBegin ==
    /\ MayCall
    /\ \E batch_size \in 1..MaxBatch, epochs \in 1..MaxEpochs :
        /\ learning' = [pc |-> "learn_once", batch_size |-> batch_size,
                        epochs |-> epochs, i |-> 0, batch_start |-> 0,
                        curr_data |-> 0, learned |-> 0, applied |-> 0]
        /\ thrown' = "none"
        /\ op' = [name |-> "learn"]
        /\ calls' = calls + 1
        /\ UNCHANGED <<input_format, input_format_set, output_format,
                       output_format_set, cost_derivative, layers,
                       parameter_layer_indices, output_p, bound_input,
                       forward_completed, crashed, mutations,
                       conv_vars, data_vars, gpu_vars>>

\* "learn_once(*curr_data, false);" in the loop over the batch; an exception
\* leaves learn
LearnLearnOnce ==
    /\ ~crashed
    /\ learning.pc = "learn_once"
    /\ learning.curr_data < BatchEnd(learning.batch_start, learning.batch_size)
    /\ \E r \in {LearnOnceResult(TrainingData[learning.curr_data + 1], FALSE)} :
          /\ layers' = r.layers
          /\ bound_input' = r.bound_input
          /\ forward_completed' = (forward_completed \/ r.forwarded)
          /\ crashed' = r.crashed
          /\ thrown' = r.thrown
          /\ learning' = IF r.thrown # "none" THEN LearnIdle
                         ELSE [learning EXCEPT !.pc = "apply_deltas",
                                               !.learned = @ + 1]
    /\ UNCHANGED <<input_format, input_format_set, output_format,
                   output_format_set, cost_derivative, parameter_layer_indices,
                   output_p, op, calls, mutations, conv_vars, data_vars, gpu_vars>>

\* "apply_deltas(batch_size);" and "++curr_data" in the loop over the batch
LearnApplyDeltas ==
    /\ ~crashed
    /\ learning.pc = "apply_deltas"
    /\ \E r \in {ApplyDeltasResult(layers, learning.batch_size)} :
          /\ layers' = r.layers
          /\ crashed' = r.crashed
    /\ learning' = [learning EXCEPT !.pc = "learn_once",
                                    !.curr_data = @ + 1,
                                    !.applied = @ + 1]
    /\ UNCHANGED <<input_format, input_format_set, output_format,
                   output_format_set, cost_derivative, parameter_layer_indices,
                   output_p, bound_input, thrown, op, forward_completed, calls,
                   mutations, conv_vars, data_vars, gpu_vars>>

\* the batch is used up: "batch.calculate_new_batch();", "i++", and the
\* return of learn after the last epoch
LearnNextBatch ==
    /\ ~crashed
    /\ learning.pc = "learn_once"
    /\ learning.curr_data = BatchEnd(learning.batch_start, learning.batch_size)
    /\ learning' =
         IF learning.i + 1 < learning.epochs
         THEN [learning EXCEPT
                 !.i = @ + 1,
                 !.batch_start = NewBatchStart(learning.batch_start, learning.batch_size),
                 !.curr_data = NewBatchStart(learning.batch_start, learning.batch_size),
                 !.learned = 0,
                 !.applied = 0]
         ELSE LearnIdle
    /\ UNCHANGED <<net_vars, crashed, calls, mutations, conv_vars, data_vars, gpu_vars>>

\* the ranges mutate is called with, and the floats random_float_incl(-range,
\* range) can draw: both ends and the middle
MutateRanges == {Zero, R(1)}
Perturbations(range) == {RNeg(range), Zero, range}

MaxMutations == 1

Mutate ==
    /\ MayCall
    /\ mutations < MaxMutations
    /\ \E range \in MutateRanges :
        \E perturbation \in Perturbations(range) :
            \E r \in MutateOutcomes(perturbation) :
                /\ layers' = r.layers
                /\ crashed' = r.crashed
                /\ thrown' = r.thrown
                /\ op' = [name |-> "mutate", arg |-> range, perturbation |-> perturbation]
                /\ calls' = calls + 1
                /\ mutations' = mutations + 1
                /\ UNCHANGED <<input_format, input_format_set, output_format,
                               output_format_set, cost_derivative,
                               parameter_layer_indices, output_p, bound_input,
                               forward_completed, learning, conv_vars, data_vars, gpu_vars>>

TrainNext ==
    \/ SetAllParameter
    \/ ApplyDeltas
    \/ LearnOnce
    \/ LearnBegin
    \/ LearnLearnOnce
    \/ LearnApplyDeltas
    \/ LearnNextBatch

\* the layers of the networks that are trained, bound as add_layer binds them
BoundFC(activation_format, fmt) ==
    FCSetInputFormat(FCCtor(activation_format, "relu"), fmt).layer

BoundConv(number_of_kernels, kernel_size, stride, fmt) ==
    Stored(ConvSetInputFormat(ConvCtor(number_of_kernels, kernel_size, stride), fmt).layer)

\* Networks as the building calls leave them, each [input_format,
\* output_format, layers, parameter_layer_indices, output_p]:
\*  two fully connected layers; a convolution and a fully connected layer;
\*  a failed add_convolutional_layer before the only layer; a failed
\*  add_convolutional_layer after the only layer.
TrainedNets ==
    { [input_format |-> Format(1, 2, 1), output_format |-> Format(1, 1, 1),
       layers |-> << BoundFC(Format(1, 2, 1), Format(1, 2, 1)),
                     BoundFC(Format(1, 1, 1), Format(1, 2, 1)) >>,
       parameter_layer_indices |-> <<0, 1>>, output_p |-> 1],
      [input_format |-> Format(2, 2, 1), output_format |-> Format(1, 1, 1),
       layers |-> << BoundConv(1, 2, 1, Format(2, 2, 1)),
                     BoundFC(Format(1, 1, 1), Format(1, 1, 1)) >>,
       parameter_layer_indices |-> <<0, 1>>, output_p |-> 1],
      [input_format |-> Format(1, 2, 1), output_format |-> Format(1, 1, 1),
       layers |-> << BoundFC(Format(1, 1, 1), Format(1, 2, 1)) >>,
       parameter_layer_indices |-> <<0, 0>>, output_p |-> 0],
      [input_format |-> Format(1, 2, 1), output_format |-> Format(1, 1, 1),
       layers |-> << BoundFC(Format(1, 1, 1), Format(1, 2, 1)) >>,
       parameter_layer_indices |-> <<0, 1>>, output_p |-> 0] }

NetIs(net) ==
    /\ input_format = net.input_format
    /\ input_format_set = TRUE
    /\ output_format = net.output_format
    /\ output_format_set = TRUE
    /\ cost_derivative = net.output_format
    /\ layers = net.layers
    /\ parameter_layer_indices = net.parameter_layer_indices
    /\ output_p = net.output_p

TrainInit ==
    /\ \E net \in TrainedNets : NetIs(net)
    /\ bound_input = NullMatrix
    /\ thrown = "none"
    /\ op = [name |-> "construct"]
    /\ forward_completed = FALSE
    /\ TrainObjectIdle
    /\ ConvObjectIdle
    /\ DataObjectIdle
    /\ GpuObjectIdle

SpecTrain == TrainInit /\ [][TrainNext]_vars

\* evolutionary training: mutate, between calls that give the parameters and
\* the delta accumulators values of their own
MutateNext ==
    \/ SetAllParameter
    \/ LearnOnce
    \/ Mutate

SpecMutate == TrainInit /\ [][MutateNext]_vars


-----------------------------------------------------------------------------
(* Claims about training                                                   *)

\* the number of examples in the batch learn is working on
BatchLength == BatchEnd(learning.batch_start, learning.batch_size) - learning.batch_start

(* C1: in learn(examples, batch_size, epochs), learn_once is called for    *)
(* every example of the current batch without applying deltas, and         *)
(* apply_deltas(batch_size) is executed exactly once per batch, only after *)
(* the last example of that batch has been back-propagated, never between  *)
(* two examples of the same batch.                                         *)
C1_DeltasAppliedOncePerBatch ==
    learning.pc # "idle" =>
        /\ learning.applied <= 1
        /\ learning.applied = 1 => learning.learned = BatchLength

(* C2: after apply_deltas(N) with N >= 1, for every parameter layer every  *)
(* weight-delta and bias-delta accumulator is 0, and every weight and bias *)
(* equals its pre-call value minus learning_rate * (pre-call accumulated   *)
(* delta / N); parameters whose accumulator was 0 are unchanged.           *)
C2_ApplyDeltasSubtractsAveragedDelta ==
    [][ (op'.name = "apply_deltas" /\ calls' = calls + 1 /\ ~crashed') =>
          \A p \in 1..Len(parameter_layer_indices) :
             LET i == parameter_layer_indices[p] + 1
             IN  /\ Len(Params(layers'[i])) = Len(Params(layers[i]))
                 /\ Len(Deltas(layers'[i])) = Len(Deltas(layers[i]))
                 /\ \A j \in 1..Len(Deltas(layers[i])) : Deltas(layers'[i])[j] = Zero
                 /\ \A j \in 1..Len(Params(layers[i])) :
                       /\ Params(layers'[i])[j] =
                            RSub(Params(layers[i])[j],
                                 RMul(LearningRate,
                                      RDiv(Deltas(layers[i])[j], R(op'.arg))))
                       /\ Deltas(layers[i])[j] = Zero =>
                            Params(layers'[i])[j] = Params(layers[i])[j]
      ]_vars

\* apply_deltas(2) has returned, and there were gradients to apply
C2_PendingDeltasApplied ==
    /\ op.name = "apply_deltas"
    /\ op.arg = 2
    /\ op.pending
    /\ ~crashed

\* a mutate call has returned
MutateReturned ==
    /\ op.name = "mutate"
    /\ thrown = "none"
    /\ ~crashed

\* the <<layer, position>> pairs of the scalar parameters that differ
\* between two chains of the same shape
ChangedParams(before, after) ==
    {<<i, j>> \in UNION {{i} \X (1..Len(Params(before[i]))) : i \in 1..Len(before)} :
        Params(after[i])[j] # Params(before[i])[j]}

SameShape(before, after) ==
    /\ Len(after) = Len(before)
    /\ \A i \in 1..Len(before) : Len(Params(after[i])) = Len(Params(before[i]))

(* C3 as stated: for any network with at least one parameter layer and any *)
(* range, one call of mutate(range) changes exactly one scalar parameter   *)
(* and leaves every other weight, bias and delta accumulator identical to  *)
(* its pre-call value.                                                     *)
C3_MutateChangesExactlyOneScalar ==
    [][ (calls' = calls + 1 /\ MutateReturned') =>
          /\ SameShape(layers, layers')
          /\ Cardinality(ChangedParams(layers, layers')) = 1
          /\ \A i \in 1..Len(layers) : Deltas(layers'[i]) = Deltas(layers[i])
      ]_vars

(* C3, amended: one call of mutate(range) that returns changes at most one *)
(* scalar parameter, by the perturbation it drew from [-range, range]      *)
(* (none when that perturbation is 0), and leaves every other weight, bias *)
(* and delta accumulator identical to its pre-call value.                  *)
C3_MutateChangesAtMostOneScalar ==
    [][ (calls' = calls + 1 /\ MutateReturned') =>
          /\ SameShape(layers, layers')
          /\ Cardinality(ChangedParams(layers, layers')) <= 1
          /\ op'.perturbation = Zero => ChangedParams(layers, layers') = {}
          /\ \A c \in ChangedParams(layers, layers') :
                Params(layers'[c[1]])[c[2]] =
                    RAdd(Params(layers[c[1]])[c[2]], op'.perturbation)
          /\ \A i \in 1..Len(layers) : Deltas(layers'[i]) = Deltas(layers[i])
      ]_vars

\* mutate has returned after drawing a perturbation other than 0, on a
\* network that holds gradients
C3_MutatedWithPendingDeltas ==
    /\ MutateReturned
    /\ op.perturbation # Zero
    /\ DeltasPending(layers)

\* the calls learn_once makes on its layers, without its own apply_deltas
LayerCalls(made) == SelectSeq(made, LAMBDA c : c.call # "apply_deltas")

\* forward on layers 0..n-1, the error seeded in layer n-1, back on n-1..0
CallsInOrder(n) ==
    [k \in 1..n |-> Call("forward_propagation", k - 1)]
      \o <<Call("set_error_for_last_layer", n - 1)>>
      \o [k \in 1..n |-> Call("back_propagation", n - k)]

IsPrefix(s, t) == Len(s) <= Len(t) /\ s = SubSeq(t, 1, Len(s))

(* C12: in one learn_once call on a chain of n layers forward_propagation  *)
(* is invoked on layers 0..n-1 in index order, each once, then the last    *)
(* layer's error is seeded from the label, then back_propagation is        *)
(* invoked on layers n-1..0, each once; no back_propagation starts before  *)
(* every forward_propagation has finished and the error has been seeded.   *)
C12_ForwardThenSeedThenBackward ==
    op.name = "learn_once" =>
        /\ IsPrefix(LayerCalls(op.calls), CallsInOrder(Len(layers)))
        /\ thrown = "none" => LayerCalls(op.calls) = CallsInOrder(Len(layers))

\* a learn_once call on a chain of two layers has returned
C12_LearnedOnceOnTwoLayers ==
    /\ op.name = "learn_once"
    /\ thrown = "none"
    /\ ~crashed
    /\ Len(layers) = 2
    /\ Len(op.calls) >= 5

\* a step in which learn_once ran without leaving the process dead
LearnOnceStep == op'.name = "learn_once" /\ calls' = calls + 1 /\ ~crashed'

\* a step in which learn_once returned
LearnOnceReturned == LearnOnceStep /\ thrown' = "none"

\* the delta accumulators the same example leaves behind when learn_once is
\* told not to apply them
AccumulatedDeltas(i) == Deltas(LearnOnceResult(op'.data, FALSE).layers[i])

(* C13: learn_once(example, apply_changes=false) leaves every weight and   *)
(* every bias of every layer unchanged; learn_once(example,                *)
(* apply_changes=true) applies the accumulated deltas with divisor 1 after *)
(* the backward pass and ends with all delta accumulators at 0.            *)
C13_ParametersChangeOnlyWhenApplied ==
    [][ /\ (LearnOnceStep /\ op'.arg = FALSE) =>
              \A i \in 1..Len(layers) : Params(layers'[i]) = Params(layers[i])
        /\ (LearnOnceReturned /\ op'.arg = TRUE) =>
              /\ op'.calls[Len(op'.calls)] = Call("apply_deltas", 1)
              /\ LayerCalls(op'.calls) = SubSeq(op'.calls, 1, Len(op'.calls) - 1)
              /\ ~DeltasPending(layers')
              /\ \A i \in 1..Len(layers) :
                    /\ Len(Params(layers'[i])) = Len(Params(layers[i]))
                    /\ \A j \in 1..Len(Params(layers[i])) :
                          Params(layers'[i])[j] =
                             RSub(Params(layers[i])[j],
                                  RMul(LearningRate,
                                       RDiv(AccumulatedDeltas(i)[j], R(1))))
      ]_vars

\* learn_once(example, true) has returned and its apply_deltas(1) has moved
\* a parameter away from the value set_all_parameter gave it
C13_LearnedOnceAndApplied ==
    /\ op.name = "learn_once"
    /\ op.arg = TRUE
    /\ thrown = "none"
    /\ ~crashed
    /\ Len(op.calls) = 2 * Len(layers) + 2
    /\ \E i \in 1..Len(layers) : \E j \in 1..Len(Params(layers[i])) :
          Params(layers[i])[j] \notin {Zero, R(1)}

(* C14: an example's error never leaks into the next example: after every *)
(* completed learn_once, on any chain of fully-connected and convolutional *)
(* layers, every element of every layer's error tensor is 0.               *)
C14_ErrorClearedAfterLearnOnce ==
    (op.name = "learn_once" /\ thrown = "none" /\ ~crashed) =>
        \A i \in 1..Len(layers) : \A j \in 1..Len(layers[i].error) :
            layers[i].error[j] = Zero

\* the input handed to forward_propagation in this step is one set_input
\* rejects: null, no input format set, another format, or no layers
InputRejected ==
    \/ op'.input.null
    \/ input_format_set = FALSE
    \/ equal_format(input_format, op'.input.format) = FALSE
    \/ layers = <<>>

(* C15: neural_network::forward_propagation(input) fails with an error,    *)
(* without invoking forward_propagation on any layer and without changing  *)
(* the first layer's bound input, any activation, parameter or delta,      *)
(* whenever input is null, the input format is not set, the input's format *)
(* differs from the network input format, or the network has no layers.    *)
C15_RejectedInputChangesNothing ==
    [][ (op'.name = "forward_propagation" /\ InputRejected) =>
          /\ thrown' # "none"
          /\ op'.calls = <<>>
          /\ bound_input' = bound_input
          /\ layers' = layers
      ]_vars

\* forward_propagation has thrown on an input of the wrong format, on a
\* network with layers that had been given an input before
C15_WrongFormatRejected ==
    /\ op.name = "forward_propagation"
    /\ thrown # "none"
    /\ op.calls = <<>>
    /\ layers # <<>>
    /\ input_format_set
    /\ ~op.input.null
    /\ ~equal_format(input_format, op.input.format)
    /\ ~bound_input.null

-----------------------------------------------------------------------------
(* data_space: the table of labelled examples and its shuffle table        *)

MaxItems == 2

\* matrix::item_count of the table: rows times row width
TableItemCount(table) == IF table = <<>> THEN 0 ELSE Len(table) * Len(table[1])

\* data_space::is_initialized
is_initialized(table) == TableItemCount(table) # 0

\* data_space::allocate_data_table: given_item_count rows of data_item_count +
\* label_item_count zeros
AllocateDataTable(given_item_count, given_data_format, given_label_format) ==
    [r \in 1..given_item_count |->
        [c \in 1..(item_count(given_data_format) + item_count(given_label_format)) |-> Zero]]

\* a shuffle that draws every position afresh, with repeats
ShuffleWithRepeats(table) ==
    [1..Len(table) -> {table[i] : i \in 1..Len(table)}]

\* data_space::init_shuffle_table: shuffle_table[i] = i
InitShuffleTable(given_item_count) == [i \in 1..given_item_count |-> i - 1]

\* std::shuffle: every reordering of the table can come out
ShuffleOutcomes(table) ==
    {t \in [1..Len(table) -> {table[i] : i \in 1..Len(table)}] :
        \A i \in 1..Len(table) :
            Cardinality({j \in 1..Len(table) : t[j] = table[i]}) =
            Cardinality({j \in 1..Len(table) : table[j] = table[i]})}

\* matrix::set_row_from_matrix(m, row_idx, offset): the table with m's
\* elements written into the row from the offset on
SetRowFromMatrix(table, m, row_idx, offset) ==
    [table EXCEPT ![row_idx + 1] =
        [c \in 1..Len(table[row_idx + 1]) |->
            IF c > offset /\ c <= offset + Len(m.data)
            THEN m.data[c - offset]
            ELSE table[row_idx + 1][c]]]

\* a constructor loop that writes the label at the start of the row
RECURSIVE FillTableOverlapping(_, _, _, _, _)
FillTableOverlapping(table, given_data, given_label, data_items, i) ==
    IF i > Len(given_data) THEN table
    ELSE FillTableOverlapping(
           IF given_label = <<>>
           THEN SetRowFromMatrix(table, given_data[i], i - 1, 0)
           ELSE SetRowFromMatrix(SetRowFromMatrix(table, given_data[i], i - 1, 0),
                                 given_label[i], i - 1, 0),
           given_data, given_label, data_items, i + 1)

\* the loop of the constructor over the given data and labels, from the
\* i-th (1-based) pair on
RECURSIVE FillTable(_, _, _, _, _)
FillTable(table, given_data, given_label, data_items, i) ==
    IF i > Len(given_data) THEN table
    ELSE FillTable(
           IF given_label = <<>>
           THEN SetRowFromMatrix(table, given_data[i], i - 1, 0)
           ELSE SetRowFromMatrix(SetRowFromMatrix(table, given_data[i], i - 1, 0),
                                 given_label[i], i - 1, data_items),
           given_data, given_label, data_items, i + 1)

\* data_space(data_format, label_format, given_data, given_label), and with
\* labelled = FALSE data_space(data_format, given_data): the object, or the
\* failure that leaves none
DataSpaceCtor(given_data_format, given_label_format, given_data, given_label, labelled) ==
    IF ~is_initialized(AllocateDataTable(Len(given_data), given_data_format,
                                        given_label_format))
    THEN [failed |-> "smart_assert(is_initialized())"]
    ELSE IF labelled /\ Len(given_data) # Len(given_label)
    THEN [failed |-> "data and label size mismatch"]
    ELSE [failed |-> "none",
          data_format |-> given_data_format,
          label_format |-> given_label_format,
          item_count |-> Len(given_data),
          shuffle_table |-> InitShuffleTable(Len(given_data)),
          data_table |->
              FillTable(AllocateDataTable(Len(given_data), given_data_format,
                                          given_label_format),
                        given_data, IF labelled THEN given_label ELSE <<>>,
                        item_count(given_data_format), 1)]

\* the examples a container is built from: the i-th data tensor holds i, the
\* i-th label 10 + i
GivenFormat == Format(1, 1, 1)
GivenData(n) == [i \in 1..n |-> Matrix(GivenFormat, <<R(i)>>)]
GivenLabel(n) == [i \in 1..n |-> Matrix(GivenFormat, <<R(10 + i)>>)]

\* a container is constructed in place of the current one, unless the
\* constructor fails
DataConstruct ==
    \E n \in 0..MaxItems, labels \in 0..MaxItems, labelled \in BOOLEAN :
        \E r \in {DataSpaceCtor(GivenFormat, IF labelled THEN GivenFormat ELSE NoFormat,
                                GivenData(n), GivenLabel(labels), labelled)} :
            /\ labels \in {n, n - 1}
            /\ data_op' = [name |-> "construct", failed |-> r.failed]
            /\ IF r.failed # "none"
               THEN UNCHANGED <<shuffle_table, data_table, data_format, label_format,
                                space_item_count, iterator_idx, data_history>>
               ELSE /\ data_history' = {}
                    /\ shuffle_table' = r.shuffle_table
                    /\ data_table' = r.data_table
                    /\ data_format' = r.data_format
                    /\ label_format' = r.label_format
                    /\ space_item_count' = r.item_count
                    /\ iterator_idx' = 0
            /\ UNCHANGED <<conv_vars, net_vars, train_vars, gpu_vars>>

\* data_space::shuffle
Shuffle ==
    IF ~is_initialized(data_table)
    THEN /\ data_op' = [name |-> "shuffle", failed |-> "smart_assert(is_initialized())"]
         /\ UNCHANGED <<shuffle_table, data_table, data_format, label_format,
                        space_item_count, iterator_idx, data_history,
                        conv_vars, net_vars, train_vars, gpu_vars>>
    ELSE \E t \in ShuffleOutcomes(shuffle_table) :
            /\ shuffle_table' = t
            /\ data_op' = [name |-> "shuffle", failed |-> "none"]
            /\ data_history' = data_history \cup {"shuffle"}
            /\ UNCHANGED <<data_table, data_format, label_format, space_item_count,
                           iterator_idx, conv_vars, net_vars, train_vars, gpu_vars>>

\* the matrices written into the table
WrittenMatrices == {Matrix(GivenFormat, <<Zero>>)}

\* data_space::set_data(m, idx): the row written is shuffle_table[iterator_idx]
SetData ==
    \E m \in WrittenMatrices, idx \in 0..(MaxItems - 1) :
        /\ data_op' = [name |-> "set_data", idx |-> idx,
                       failed |-> IF is_initialized(data_table) THEN "none"
                                  ELSE "smart_assert(is_initialized())"]
        /\ data_history' = IF is_initialized(data_table)
                            THEN data_history \cup {"set_data"} ELSE data_history
        /\ data_table' = IF is_initialized(data_table)
                         THEN SetRowFromMatrix(data_table, m,
                                               shuffle_table[iterator_idx + 1], 0)
                         ELSE data_table
        /\ UNCHANGED <<shuffle_table, data_format, label_format, space_item_count,
                       iterator_idx, conv_vars, net_vars, train_vars, gpu_vars>>

\* data_space::set_label(m, idx)
SetLabel ==
    \E m \in WrittenMatrices, idx \in 0..(MaxItems - 1) :
        /\ data_op' = [name |-> "set_label", idx |-> idx,
                       failed |-> IF is_initialized(data_table) THEN "none"
                                  ELSE "smart_assert(is_initialized())"]
        /\ data_history' = IF is_initialized(data_table)
                            THEN data_history \cup {"set_label"} ELSE data_history
        /\ data_table' = IF is_initialized(data_table)
                         THEN SetRowFromMatrix(data_table, m,
                                               shuffle_table[iterator_idx + 1],
                                               item_count(data_format))
                         ELSE data_table
        /\ UNCHANGED <<shuffle_table, data_format, label_format, space_item_count,
                       iterator_idx, conv_vars, net_vars, train_vars, gpu_vars>>

\* the table row the iteration cursor stands on
CurrentRow == data_table[shuffle_table[iterator_idx + 1] + 1]

\* data_space::get_next_data: the data part of the cursor's row
get_next_data ==
    Matrix(data_format, SubSeq(CurrentRow, 1, item_count(data_format)))

\* data_space::get_next_label: the label part of the cursor's row
get_next_label ==
    Matrix(label_format,
           SubSeq(CurrentRow, item_count(data_format) + 1,
                  item_count(data_format) + item_count(label_format)))

\* data_space::iterator_next: the cursor moves on by one; the model makes the
\* calls that leave it inside the table
IteratorNext ==
    /\ is_initialized(data_table)
    /\ iterator_idx + 1 < space_item_count
    /\ iterator_idx' = iterator_idx + 1
    /\ data_op' = [name |-> "iterator_next", failed |-> "none"]
    /\ data_history' = data_history \cup {"iterator_next"}
    /\ UNCHANGED <<shuffle_table, data_table, data_format, label_format,
                   space_item_count, conv_vars, net_vars, train_vars, gpu_vars>>

DataNext ==
    \/ DataConstruct
    \/ Shuffle
    \/ SetData
    \/ SetLabel
    \/ IteratorNext

DataInit ==
    DataObjectIdle /\ NetObjectInit /\ TrainObjectIdle /\ ConvObjectIdle /\ GpuObjectIdle

SpecData == DataInit /\ [][DataNext]_vars

-----------------------------------------------------------------------------
(* Claims about data_space                                                 *)

\* t holds every index of 0..n-1 exactly once
IsPermutationOfIndices(t, n) ==
    /\ Len(t) = n
    /\ \A r \in 0..(n - 1) : Cardinality({i \in 1..n : t[i] = r}) = 1

(* C10: after any number of shuffle calls on an initialized data_space,    *)
(* shuffle_table is a permutation of 0..item_count-1 (same length, every   *)
(* index exactly once) and data_table, data_format, label_format and       *)
(* item_count are unchanged.                                               *)
C10_ShuffleKeepsPermutationAndData ==
    [][ (data_op'.name = "shuffle" /\ is_initialized(data_table)) =>
          /\ IsPermutationOfIndices(shuffle_table', space_item_count')
          /\ data_table' = data_table
          /\ data_format' = data_format
          /\ label_format' = label_format
          /\ space_item_count' = space_item_count
      ]_vars

\* a shuffle has reordered the table of a container of several examples
C10_Shuffled ==
    /\ data_op.name = "shuffle"
    /\ data_op.failed = "none"
    /\ space_item_count >= 2
    /\ shuffle_table # InitShuffleTable(space_item_count)

\* the label tensors were given at construction
Labelled == label_format # NoFormat

\* the data part of table row r (0-based)
RowData(r) == SubSeq(data_table[r + 1], 1, item_count(data_format))

(* C11: for a data_space built from n data tensors and n label tensors and *)
(* never shuffled, after i calls of iterator_next (0 <= i < n)             *)
(* get_next_data returns the i-th data tensor given at construction and    *)
(* get_next_label the i-th label tensor given at construction; writing the *)
(* label of a row does not alter the data of any row.                      *)
C11_NextReturnsGivenPairsInOrder ==
    (is_initialized(data_table) /\ "shuffle" \notin data_history) =>
        /\ "set_data" \notin data_history =>
              /\ get_next_data = GivenData(space_item_count)[iterator_idx + 1]
              /\ \A r \in 0..(space_item_count - 1) :
                    RowData(r) = GivenData(space_item_count)[r + 1].data
        /\ (Labelled /\ "set_label" \notin data_history) =>
              get_next_label = GivenLabel(space_item_count)[iterator_idx + 1]

\* the cursor has been advanced on a labelled container whose label was
\* written, with no shuffle and no data written
C11_AdvancedAfterLabelWritten ==
    /\ is_initialized(data_table)
    /\ Labelled
    /\ iterator_idx >= 1
    /\ data_history = {"set_label", "iterator_next"}

\* data_space::observe_data_at_idx(observer_matrix, idx): the table row and
\* the offset in it that the observer is bound to by observe_row
observe_data_at_idx(idx) ==
    [row |-> shuffle_table[iterator_idx + 1], offset |-> 0]

\* data_space::observe_label_at_idx(observer_matrix, idx)
observe_label_at_idx(idx) ==
    [row |-> shuffle_table[iterator_idx + 1], offset |-> item_count(data_format)]

(* C22: the idx argument of the accessors selects the example: for every   *)
(* idx < item_count and every position of the iteration cursor,            *)
(* observe_data_at_idx(m, idx) and observe_label_at_idx(m, idx) bind m to  *)
(* table row shuffle_table[idx], and set_data(m, idx) / set_label(m, idx)  *)
(* write table row shuffle_table[idx], independent of iterator_idx.        *)
C22_IdxSelectsTheExample ==
    [][ /\ is_initialized(data_table) =>
              \A idx \in 0..(space_item_count - 1) :
                  /\ observe_data_at_idx(idx).row = shuffle_table[idx + 1]
                  /\ Labelled =>
                        observe_label_at_idx(idx).row = shuffle_table[idx + 1]
        /\ (/\ data_op'.name = "set_data"
            /\ data_op'.failed = "none"
            /\ data_op'.idx < space_item_count) =>
              \E m \in WrittenMatrices :
                  data_table' = SetRowFromMatrix(data_table, m,
                                                 shuffle_table[data_op'.idx + 1], 0)
        /\ (/\ data_op'.name = "set_label"
            /\ data_op'.failed = "none"
            /\ Labelled
            /\ data_op'.idx < space_item_count) =>
              \E m \in WrittenMatrices :
                  data_table' = SetRowFromMatrix(data_table, m,
                                                 shuffle_table[data_op'.idx + 1],
                                                 item_count(data_format))
      ]_vars

-----------------------------------------------------------------------------
(* The device: the residency of a fully connected layer's tensors and the  *)
(* gpu_math entry points. An unsigned int is kept as its two 16-bit        *)
(* halves [hi, lo], so that the whole 32-bit range is at hand. The device  *)
(* is taken to be available: cudaSetDevice and the synchronization succeed.*)

MaxGpuItems == 2

THREADS_PER_BLOCK == 1024

\* the conversion of an item count (size_t) to unsigned int
ToUnsigned(n) == [hi |-> (n \div 65536) % 65536, lo |-> n % 65536]

\* "a < b" on unsigned ints
UnsignedLess(a, b) == a.hi < b.hi \/ (a.hi = b.hi /\ a.lo < b.lo)

\* a block count that is the quotient plus one
GetBlockCountPlusOne(size) ==
    (size.hi * (65536 \div THREADS_PER_BLOCK) + (size.lo \div THREADS_PER_BLOCK)) + 1

\* get_block_count: ((size - 1) / THREADS_PER_BLOCK) + 1 in unsigned int
\* arithmetic; size - 1 wraps to 2^32 - 1 at size 0
get_block_count(size) ==
    LET size_minus_1 == IF size.lo > 0 THEN [hi |-> size.hi, lo |-> size.lo - 1]
                        ELSE IF size.hi > 0 THEN [hi |-> size.hi - 1, lo |-> 65535]
                        ELSE [hi |-> 65535, lo |-> 65535]
    IN  (size_minus_1.hi * (65536 \div THREADS_PER_BLOCK)
           + (size_minus_1.lo \div THREADS_PER_BLOCK)) + 1

\* "blockIdx.x * blockDim.x + threadIdx.x" of lane <<blockIdx.x, threadIdx.x>>,
\* in unsigned int arithmetic
LaneIndex(lane) ==
    LET blocks_per_half == 65536 \div THREADS_PER_BLOCK
    IN  [hi |-> (lane[1] \div blocks_per_half) % 65536,
         lo |-> (lane[1] % blocks_per_half) * THREADS_PER_BLOCK + lane[2]]

\* the lanes of a grid of block_count blocks
Grid(block_count) == (0..(block_count - 1)) \X (0..(THREADS_PER_BLOCK - 1))

\* the position in a buffer (as a Seq) that an in-range unsigned index names
At(index) == index.hi * 65536 + index.lo + 1

\* a kernel that guards with "index <= size"
AddKernelOffByOne(lane, a, b, size) ==
    IF ~UnsignedLess(size, LaneIndex(lane))
    THEN {[lane |-> lane, at |-> At(LaneIndex(lane)),
           value |-> IF At(LaneIndex(lane)) <= Len(a)
                     THEN RAdd(a[At(LaneIndex(lane))], b[At(LaneIndex(lane))])
                     ELSE Zero]}
    ELSE {}

\* gpu_add_matrices_kernel: the writes of one lane
gpu_add_matrices_kernel(lane, a, b, size) ==
    IF UnsignedLess(LaneIndex(lane), size)
    THEN {[lane |-> lane, at |-> At(LaneIndex(lane)),
           value |-> RAdd(a[At(LaneIndex(lane))], b[At(LaneIndex(lane))])]}
    ELSE {}

\* the buffer after the lanes' writes have landed; a write past the end of
\* the buffer lands outside of it
Written(buffer, writes) ==
    [i \in 1..Len(buffer) |->
        IF \E w \in writes : w.at = i
        THEN (CHOOSE w \in writes : w.at = i).value
        ELSE buffer[i]]

\* what a call that launched one grid leaves in gpu_op; operands are the
\* numbers of the buffers it was handed
Launched(name, operands, block_count, writes) ==
    [name |-> name, operands |-> operands, thrown |-> "none", launches |-> 1, synchronized |-> TRUE,
     blocks |-> block_count,
     idle_blocks |-> Cardinality({b \in 0..(block_count - 1) :
                                    \A w \in writes : w.lane[1] # b}),
     lanes |-> Cardinality(writes),
     places |-> {w.at : w \in writes}]

\* what a call that threw before its launch leaves in gpu_op
Rejected(name, operands, error) ==
    [name |-> name, operands |-> operands, thrown |-> error, launches |-> 0, synchronized |-> FALSE,
     blocks |-> 0, idle_blocks |-> 0, lanes |-> 0, places |-> {}]

\* the content of the k-th buffer when it is allocated with n items
GpuBuffer(k, n) == [i \in 1..n |-> R(((i * k + k * k) % 5) - 2)]

\* the item counts of the three buffers of an allocation
GpuAllocations ==
    ((0..(MaxGpuItems * MaxGpuItems)) \X (0..MaxGpuItems) \X (0..MaxGpuItems))
      \cup { <<THREADS_PER_BLOCK, THREADS_PER_BLOCK, THREADS_PER_BLOCK>>,
             <<THREADS_PER_BLOCK + 1, THREADS_PER_BLOCK + 1, THREADS_PER_BLOCK + 1>>,
             <<THREADS_PER_BLOCK + 1, 1, THREADS_PER_BLOCK + 1>> }

\* the device calls are made on buffers as they were allocated
Fresh == \A k \in 1..3 : gpu_memories[k] = GpuBuffer(k, Len(gpu_memories[k]))

\* a gpu_add that does not look at the size of the result
GpuAddUnchecked(a, b, result) ==
    IF Len(a) = 0 \/ Len(a) # Len(b)
    THEN "gpu_add_matrices failed. size must be greater than 0"
    ELSE "none"

\* gpu_add: the exception of its argument check, or "none"
GpuAddError(a, b, result) ==
    IF Len(a) = 0 \/ Len(a) # Len(b) \/ Len(a) # Len(result)
    THEN "gpu_add_matrices failed. size must be greater than 0"
    ELSE "none"

\* gpu_add(gpu_memories[1], gpu_memories[2], gpu_memories[3])
GpuAdd ==
    /\ Fresh
    /\ \E err \in {GpuAddError(gpu_memories[1], gpu_memories[2], gpu_memories[3])} :
        IF err # "none"
        THEN /\ gpu_op' = Rejected("gpu_add", <<1, 2, 3>>, err)
             /\ UNCHANGED gpu_memories
        ELSE \E size \in {ToUnsigned(Len(gpu_memories[1]))} :
             \E writes \in {UNION {gpu_add_matrices_kernel(lane, gpu_memories[1],
                                                           gpu_memories[2], size) :
                                     lane \in Grid(get_block_count(size))}} :
                /\ gpu_memories' = [gpu_memories EXCEPT ![3] = Written(@, writes)]
                /\ gpu_op' = Launched("gpu_add", <<1, 2, 3>>, get_block_count(size), writes)
    /\ UNCHANGED <<residency, conv_vars, net_vars, train_vars, data_vars>>

\* get_idx(x, y, z, height, width)
get_idx(x, y, z, height, width) == x + y * width + z * width * height

\* a kernel that reads the weights as a matrix of width activations_size
DotProductKernelTransposed(lane, weights, input, input_size, activations_size) ==
    IF UnsignedLess(LaneIndex(lane), ToUnsigned(activations_size))
    THEN {[lane |-> lane, at |-> At(LaneIndex(lane)),
           value |-> SumTo([i \in 1..input_size |->
                              RMul(weights[get_idx(At(LaneIndex(lane)) - 1, i - 1, 0,
                                                   input_size, activations_size) + 1],
                                   input[i])],
                           input_size)]}
    ELSE {}

\* gpu_dot_product_kernel: the writes of one lane; the loop adds the
\* products in the order of i
gpu_dot_product_kernel(lane, weights, input, input_size, activations_size) ==
    IF UnsignedLess(LaneIndex(lane), ToUnsigned(activations_size))
    THEN {[lane |-> lane, at |-> At(LaneIndex(lane)),
           value |-> SumTo([i \in 1..input_size |->
                              RMul(weights[get_idx(i - 1, At(LaneIndex(lane)) - 1, 0,
                                                   activations_size, input_size) + 1],
                                   input[i])],
                           input_size)]}
    ELSE {}

\* gpu_dot_product: the exception of its argument check, or "none"
GpuDotProductError(gpu_weights, gpu_input, gpu_activations) ==
    IF Len(gpu_weights) = 0 \/ Len(gpu_input) = 0 \/ Len(gpu_activations) = 0
    THEN "gpu_dot_product failed. size must be greater than 0"
    ELSE IF Len(gpu_activations) * Len(gpu_input) # Len(gpu_weights)
    THEN "gpu_dot_product failed. false format"
    ELSE "none"

\* gpu_dot_product(gpu_memories[1], gpu_memories[2], gpu_memories[3])
GpuDotProduct ==
    /\ Fresh
    /\ \E err \in {GpuDotProductError(gpu_memories[1], gpu_memories[2], gpu_memories[3])} :
        IF err # "none"
        THEN /\ gpu_op' = Rejected("gpu_dot_product", <<1, 2, 3>>, err)
             /\ UNCHANGED gpu_memories
        ELSE \E size \in {ToUnsigned(Len(gpu_memories[3]))} :
             \E writes \in {UNION {gpu_dot_product_kernel(lane, gpu_memories[1],
                                       gpu_memories[2], Len(gpu_memories[2]),
                                       Len(gpu_memories[3])) :
                                     lane \in Grid(get_block_count(size))}} :
                /\ gpu_memories' = [gpu_memories EXCEPT ![3] = Written(@, writes)]
                /\ gpu_op' = Launched("gpu_dot_product", <<1, 2, 3>>, get_block_count(size), writes)
    /\ UNCHANGED <<residency, conv_vars, net_vars, train_vars, data_vars>>

\* gpu_sigmoid_kernel: the writes of one lane; 1 / (1 + exp(-x)) is kept as
\* the term it is
gpu_sigmoid_kernel(lane, data, size) ==
    IF UnsignedLess(LaneIndex(lane), ToUnsigned(size))
    THEN {[lane |-> lane, at |-> At(LaneIndex(lane)),
           value |-> [sigmoid_of |-> data[At(LaneIndex(lane))]]]}
    ELSE {}

\* gpu_relu_kernel: the writes of one lane
gpu_relu_kernel(lane, data, size) ==
    IF UnsignedLess(LaneIndex(lane), ToUnsigned(size))
    THEN {[lane |-> lane, at |-> At(LaneIndex(lane)),
           value |-> IF RLess(Zero, data[At(LaneIndex(lane))])
                     THEN data[At(LaneIndex(lane))] ELSE Zero]}
    ELSE {}

\* gpu_sigmoid / gpu_relu: the exception of the argument check, or "none"
GpuActivationError(name, gpu_memory) ==
    IF Len(gpu_memory) = 0
    THEN name \o " failed. size must be greater than 0"
    ELSE "none"

\* gpu_sigmoid(gpu_memories[k])
GpuSigmoid ==
    /\ Fresh
    /\ \E k \in 1..3 :
       \E err \in {GpuActivationError("gpu_sigmoid", gpu_memories[k])} :
        IF err # "none"
        THEN /\ gpu_op' = Rejected("gpu_sigmoid", <<k>>, err)
             /\ UNCHANGED gpu_memories
        ELSE \E size \in {ToUnsigned(Len(gpu_memories[k]))} :
             \E writes \in {UNION {gpu_sigmoid_kernel(lane, gpu_memories[k],
                                                      Len(gpu_memories[k])) :
                                     lane \in Grid(get_block_count(size))}} :
                /\ gpu_memories' = [gpu_memories EXCEPT ![k] = Written(@, writes)]
                /\ gpu_op' = Launched("gpu_sigmoid", <<k>>, get_block_count(size), writes)
    /\ UNCHANGED <<residency, conv_vars, net_vars, train_vars, data_vars>>

\* gpu_relu(gpu_memories[k])
GpuRelu ==
    /\ Fresh
    /\ \E k \in 1..3 :
       \E err \in {GpuActivationError("gpu_relu", gpu_memories[k])} :
        IF err # "none"
        THEN /\ gpu_op' = Rejected("gpu_relu", <<k>>, err)
             /\ UNCHANGED gpu_memories
        ELSE \E size \in {ToUnsigned(Len(gpu_memories[k]))} :
             \E writes \in {UNION {gpu_relu_kernel(lane, gpu_memories[k],
                                                   Len(gpu_memories[k])) :
                                     lane \in Grid(get_block_count(size))}} :
                /\ gpu_memories' = [gpu_memories EXCEPT ![k] = Written(@, writes)]
                /\ gpu_op' = Launched("gpu_relu", <<k>>, get_block_count(size), writes)
    /\ UNCHANGED <<residency, conv_vars, net_vars, train_vars, data_vars>>

\* gpu_sub_ptr: [thrown, from]; from is the element the returned pointer
\* refers to. gpu_memory.size() is the size of the buffer in bytes,
\* item_count() * sizeof(float); an allocated buffer's pointer is not null
gpu_sub_ptr(gpu_memory, elements_per_idx, index) ==
    IF index >= Len(gpu_memory)
    THEN [thrown |-> "gpu_sub_ptr failed. index out of range", from |-> 0]
    ELSE IF Len(gpu_memory) * 4 < elements_per_idx * 4
    THEN [thrown |-> "gpu_sub_ptr failed. size_of_element must be less than gpu_memory.size()",
          from |-> 0]
    ELSE [thrown |-> "none", from |-> index * elements_per_idx]

\* gpu_valid_cross_correlation: the exception of its argument checks, or
\* "none"; weights_items is gpu_kernel_weights[0].item_count(). With
\* kernel_size > input_size the size_t difference wraps to about 2^64, a
\* whole float that no activation count equals
GpuValidCrossCorrelationError(gpu_input, weights_items, gpu_activations, input_size, input_depth, kernel_size, kernel_count, stride) ==
    IF Len(gpu_input) = 0 \/ Len(gpu_activations) = 0
    THEN "gpu_valid_cross_correlation failed. size must be greater than 0"
    ELSE IF input_size * input_size * input_depth # Len(gpu_input)
    THEN "input size is different on gpu and cpu"
    ELSE IF ~is_whole_number(IntToFloat(weights_items \div kernel_count))
    THEN "gpu kernels could not be devided by kernel count"
    ELSE IF kernel_size * kernel_size * input_depth # weights_items \div kernel_count
    THEN "kernel size false"
    ELSE IF kernel_size > input_size
    THEN "gpu_valid_cross_correlation failed. false format"
    ELSE IF ~is_whole_number(OutputSide(input_size, kernel_size, stride))
    THEN "gpu_valid_cross_correlation failed. this stride, size combination cannot be used"
    ELSE IF IntToFloat(Len(gpu_activations)) #
              RoundToFloat(RMul(RoundToFloat(RMul(OutputSide(input_size, kernel_size, stride),
                                                  OutputSide(input_size, kernel_size, stride))),
                                IntToFloat(kernel_count)))
    THEN "gpu_valid_cross_correlation failed. false format"
    ELSE "none"

\* the loop of gpu_valid_cross_correlation over the kernels, from
\* activation_depth on: [thrown, slices]; a slice is the range of elements
\* [from, to) behind the pointer handed to one kernel launch
RECURSIVE SliceLoop(_, _, _, _)
SliceLoop(gpu_activations, output_size, kernel_count, activation_depth) ==
    IF activation_depth >= kernel_count THEN [thrown |-> "none", slices |-> <<>>]
    ELSE LET p == gpu_sub_ptr(gpu_activations, output_size * output_size, activation_depth)
         IN  IF p.thrown # "none" THEN [thrown |-> p.thrown, slices |-> <<>>]
             ELSE [SliceLoop(gpu_activations, output_size, kernel_count, activation_depth + 1)
                     EXCEPT !.slices = <<[from |-> p.from,
                                          to |-> p.from + output_size * output_size]>> \o @]

\* gpu_valid_cross_correlation(gpu_memories[2], kernels, gpu_memories[1], ...);
\* its kernel has an empty body, so no buffer is written, and the checks
\* read only the sizes of the buffers: the call is made first on an allocation
GpuValidCrossCorrelation ==
    /\ gpu_op.name = "allocate"
    /\ \E input_size \in 1..MaxGpuItems, input_depth \in 1..2,
          kernel_size \in 1..MaxGpuItems, kernel_count \in 1..(MaxGpuItems * MaxGpuItems),
          stride \in 1..2, output_size \in 1..MaxGpuItems, spare_items \in 0..1 :
       \E err \in {GpuValidCrossCorrelationError(
                      gpu_memories[2],
                      kernel_size * kernel_size * input_depth * kernel_count + spare_items,
                      gpu_memories[1], input_size, input_depth, kernel_size,
                      kernel_count, stride)} :
        IF err # "none"
        THEN gpu_op' = [name |-> "gpu_valid_cross_correlation", thrown |-> err,
                        launches |-> 0, synchronized |-> FALSE]
        ELSE \E r \in {SliceLoop(gpu_memories[1], output_size, kernel_count, 0)} :
                gpu_op' = [name |-> "gpu_valid_cross_correlation", thrown |-> r.thrown,
                           launches |-> Len(r.slices),
                           synchronized |-> (r.thrown = "none"),
                           slices |-> r.slices, kernel_count |-> kernel_count,
                           output_size |-> output_size]
    /\ UNCHANGED <<residency, gpu_memories, conv_vars, net_vars, train_vars, data_vars>>

\* element counts over the whole range of unsigned int, from 1 on
GridSizes ==
    { [hi |-> hi, lo |-> lo] :
        hi \in {0, 1, 32767, 32768, 65535},
        lo \in {0, 1, THREADS_PER_BLOCK - 1, THREADS_PER_BLOCK, THREADS_PER_BLOCK + 1,
                65535 - THREADS_PER_BLOCK, 65536 - THREADS_PER_BLOCK, 65535} }
      \ { [hi |-> 0, lo |-> 0] }

\* get_block_count(size) for an element count an entry point may be handed,
\* and the guard "index < size" of two lanes of the grid it launches; buffers
\* of these sizes are not allocated, the count is looked at on its own
GetBlockCount ==
    /\ gpu_op.name = "allocate"
    /\ \A k \in 1..3 : gpu_memories[k] = <<>>
    /\ \E size \in GridSizes :
       \E blocks \in {get_block_count(size)} :
       \E lane \in ({0, 1, blocks - 2, blocks - 1} \cap (0..(blocks - 1)))
                      \X {0, 1, THREADS_PER_BLOCK - 2, THREADS_PER_BLOCK - 1},
          other \in ({0, blocks - 1} \X {0, THREADS_PER_BLOCK - 1}) :
           gpu_op' = [name |-> "get_block_count", size |-> size, blocks |-> blocks,
                      lane |-> lane, other |-> other,
                      lane_writes |-> UnsignedLess(LaneIndex(lane), size),
                      other_writes |-> UnsignedLess(LaneIndex(other), size)]
    /\ UNCHANGED <<residency, gpu_memories, conv_vars, net_vars, train_vars, data_vars>>

\* matrix::enable_gpu_mode on one tensor of the layer
MatrixEnableGpuMode(res, tensor) == [res EXCEPT ![tensor] = "device"]

\* fully_connected_layer::enable_gpu_mode
EnableGpuMode ==
    /\ residency' = MatrixEnableGpuMode(MatrixEnableGpuMode(MatrixEnableGpuMode(
                      MatrixEnableGpuMode(residency, "weights"), "biases"),
                      "weight_deltas"), "bias_deltas")
    /\ gpu_op' = [name |-> "enable_gpu_mode"]
    /\ UNCHANGED <<gpu_memories, conv_vars, net_vars, train_vars, data_vars>>

\* fully_connected_layer::disable_gpu has an empty body
DisableGpu ==
    /\ gpu_op' = [name |-> "disable_gpu"]
    /\ UNCHANGED <<residency, gpu_memories, conv_vars, net_vars, train_vars, data_vars>>

GpuNext ==
    \/ EnableGpuMode
    \/ DisableGpu
    \/ GpuAdd
    \/ GpuDotProduct
    \/ GpuSigmoid
    \/ GpuRelu
    \/ GpuValidCrossCorrelation
    \/ GetBlockCount

\* three buffers allocated on the device, the layer's tensors on the host
GpuObjectInit ==
    /\ residency = [t \in {"weights", "biases", "weight_deltas", "bias_deltas"} |-> "host"]
    /\ \E n \in GpuAllocations :
          gpu_memories = [k \in 1..3 |-> GpuBuffer(k, n[k])]
    /\ gpu_op = [name |-> "allocate"]

GpuInit ==
    GpuObjectInit /\ NetObjectInit /\ ConvObjectIdle /\ TrainObjectIdle /\ DataObjectIdle

SpecGpu == GpuInit /\ [][GpuNext]_vars

-----------------------------------------------------------------------------
(* Claims about the device                                                 *)

(* C19: a fully-connected layer's tensors change residency together and    *)
(* reversibly: after any sequence of enable_gpu_mode and disable_gpu calls *)
(* weights, biases, weight_deltas and bias_deltas all have the same        *)
(* residency, and that residency is device after enable_gpu_mode and host  *)
(* after disable_gpu.                                                      *)
C19_ResidencyFollowsLastCall ==
    /\ \A t, u \in DOMAIN residency : residency[t] = residency[u]
    /\ gpu_op.name = "enable_gpu_mode" => \A t \in DOMAIN residency : residency[t] = "device"
    /\ gpu_op.name = "disable_gpu" => \A t \in DOMAIN residency : residency[t] = "host"

\* the operands of gpu_dot_product in this step have matching, non-zero sizes
DotProductOperandsFit ==
    /\ Len(gpu_memories[1]) > 0 /\ Len(gpu_memories[2]) > 0 /\ Len(gpu_memories[3]) > 0
    /\ Len(gpu_memories[1]) = Len(gpu_memories[2]) * Len(gpu_memories[3])

(* C16: for integer-valued weights and inputs with weights.item_count ==   *)
(* input.item_count * activations.item_count and all counts > 0,           *)
(* gpu_dot_product writes activations[i] = sum over j of                   *)
(* weights[j + i*input_count] * input[j] for every i, the value the host   *)
(* path reads through get_weight_at(j, i); each activations[i] is written  *)
(* by exactly one lane and weights and input are unchanged.                *)
C16_DeviceDotProductIsHostDotProduct ==
    [][ (gpu_op'.name = "gpu_dot_product" /\ DotProductOperandsFit) =>
          /\ gpu_op'.thrown = "none"
          /\ \A i \in 0..(Len(gpu_memories[3]) - 1) :
                gpu_memories'[3][i + 1] =
                   SumTo([j \in 1..Len(gpu_memories[2]) |->
                            RMul(gpu_memories[1][(j - 1) + i * Len(gpu_memories[2]) + 1],
                                 gpu_memories[2][j])],
                         Len(gpu_memories[2]))
          /\ gpu_memories'[3] =
                DotProduct(gpu_memories[1], gpu_memories[2], Len(gpu_memories[3]))
          /\ gpu_op'.lanes = Len(gpu_memories[3])
          /\ gpu_op'.places = 1..Len(gpu_memories[3])
          /\ gpu_memories'[1] = gpu_memories[1]
          /\ gpu_memories'[2] = gpu_memories[2]
      ]_vars

\* gpu_dot_product has returned on two inputs and two activations, and has
\* changed the activations
C16_DotProductOfTwoByTwo ==
    /\ gpu_op.name = "gpu_dot_product"
    /\ gpu_op.thrown = "none"
    /\ Len(gpu_memories[2]) = 2
    /\ Len(gpu_memories[3]) = 2
    /\ gpu_memories[3] # GpuBuffer(3, 2)

\* the operands of the device call made in this step are ones its entry
\* point has to reject
OperandsInvalid ==
    IF gpu_op'.name = "gpu_dot_product" THEN ~DotProductOperandsFit
    ELSE IF gpu_op'.name = "gpu_add"
    THEN \/ \E k \in 1..3 : Len(gpu_memories[k]) = 0
         \/ \E k \in 2..3 : Len(gpu_memories[k]) # Len(gpu_memories[1])
    ELSE Len(gpu_memories[gpu_op'.operands[1]]) = 0

(* C17: every device entry point (gpu_dot_product, gpu_add, gpu_sigmoid,   *)
(* gpu_relu) validates its operands before dispatch: when any operand has  *)
(* item count 0, or the sizes do not match, it fails with an error before  *)
(* any kernel is launched and leaves the output buffer unchanged; on the   *)
(* success path it returns only after the error check and synchronization  *)
(* step has run.                                                           *)
C17_EntryPointsValidateBeforeDispatch ==
    [][ gpu_op'.name \in {"gpu_dot_product", "gpu_add", "gpu_sigmoid", "gpu_relu"} =>
          /\ OperandsInvalid =>
                /\ gpu_op'.thrown # "none"
                /\ gpu_op'.launches = 0
                /\ gpu_memories' = gpu_memories
          /\ gpu_op'.thrown = "none" =>
                /\ gpu_op'.launches = 1
                /\ gpu_op'.synchronized
      ]_vars

\* gpu_add has thrown on two operands of one size and a result of another
C17_AddRejectedForItsResult ==
    /\ gpu_op.name = "gpu_add"
    /\ gpu_op.thrown # "none"
    /\ gpu_op.launches = 0
    /\ Len(gpu_memories[1]) > 0
    /\ Len(gpu_memories[2]) = Len(gpu_memories[1])
    /\ Len(gpu_memories[3]) \notin {0, Len(gpu_memories[1])}

\* x + 1 on unsigned ints below 2^32 - 1
UnsignedPlusOne(x) ==
    IF x.lo < 65535 THEN [hi |-> x.hi, lo |-> x.lo + 1] ELSE [hi |-> x.hi + 1, lo |-> 0]

\* index a is at or past index b
AtOrPast(a, b) == ~UnsignedLess(a, b)

(* C18: for every element count n >= 1 (as a 32-bit unsigned value) passed *)
(* to a device entry point, the launched grid of get_block_count(n) blocks *)
(* of 1024 lanes assigns every output index in [0, n) to exactly one lane, *)
(* contains no block whose lanes are all >= n (the block count is the      *)
(* minimum ceil(n/1024)), and lanes with index >= n write nothing.         *)
C18_GridCoversEveryIndexOnce ==
    /\ (gpu_op.name \in {"gpu_dot_product", "gpu_add", "gpu_sigmoid", "gpu_relu"}
          /\ gpu_op.thrown = "none") =>
          LET n == Len(gpu_memories[gpu_op.operands[Len(gpu_op.operands)]])
          IN  /\ gpu_op.places = 1..n
              /\ gpu_op.lanes = n
              /\ gpu_op.idle_blocks = 0
              /\ (gpu_op.blocks - 1) * THREADS_PER_BLOCK < n
              /\ n <= gpu_op.blocks * THREADS_PER_BLOCK
    /\ gpu_op.name = "get_block_count" =>
          LET last_lane == LaneIndex(<<gpu_op.blocks - 1, THREADS_PER_BLOCK - 1>>)
          IN  \* the lane indices do not wrap, so they differ from lane to lane
              /\ gpu_op.blocks >= 1
              /\ gpu_op.blocks <= 65536 * (65536 \div THREADS_PER_BLOCK)
              /\ gpu_op.lane # gpu_op.other =>
                    LaneIndex(gpu_op.lane) # LaneIndex(gpu_op.other)
              \* the last index, n - 1, has a lane
              /\ AtOrPast(last_lane, gpu_op.size) \/ UnsignedPlusOne(last_lane) = gpu_op.size
              \* the first lane of every block has work, the last block included
              /\ UnsignedLess(LaneIndex(<<gpu_op.blocks - 1, 0>>), gpu_op.size)
              /\ UnsignedLess(LaneIndex(<<gpu_op.lane[1], 0>>), gpu_op.size)
              \* a lane at or past n writes nothing
              /\ AtOrPast(LaneIndex(gpu_op.lane), gpu_op.size) => ~gpu_op.lane_writes
              /\ AtOrPast(LaneIndex(gpu_op.other), gpu_op.size) => ~gpu_op.other_writes

\* gpu_add has returned on 1025 elements: two blocks, the second with one
\* working lane
C18_TwoBlocksForOneMoreThanABlock ==
    /\ gpu_op.name = "gpu_add"
    /\ gpu_op.thrown = "none"
    /\ gpu_op.blocks = 2
    /\ gpu_op.lanes = THREADS_PER_BLOCK + 1

(* C20: in gpu_valid_cross_correlation, for every call that passes the     *)
(* argument validation and for every kernel index d in [0, kernel_count),  *)
(* the depth slice obtained from gpu_sub_ptr(gpu_activations,              *)
(* output_size*output_size, d) covers elements [d*output_size^2,           *)
(* (d+1)*output_size^2) that all lie inside the activation buffer; no      *)
(* slice pointer reaches past the end of the buffer.                       *)
C20_SlicesInsideActivationBuffer ==
    (gpu_op.name = "gpu_valid_cross_correlation" /\ gpu_op.thrown = "none") =>
        /\ Len(gpu_op.slices) = gpu_op.kernel_count
        /\ \A d \in 0..(gpu_op.kernel_count - 1) :
              /\ gpu_op.slices[d + 1].from = d * gpu_op.output_size * gpu_op.output_size
              /\ gpu_op.slices[d + 1].to = (d + 1) * gpu_op.output_size * gpu_op.output_size
              /\ gpu_op.slices[d + 1].to <= Len(gpu_memories[1])

=============================================================================
